---- MODULE Spec2Model ----
(***************************************************************************)
(* Rewrite-graph engine (graph_builder2.py), policy / learner engine       *)
(* (policies.py, learner.py) and graph walker (learner_integration.py)     *)
(* of Alg-Trust, as one state machine.                                     *)
(*                                                                         *)
(* A Python token (a str) is a record: an operator, a bracket delimiter or *)
(* a numeric literal.  float(token) is the exact rational n/d of a numeric *)
(* literal; the inputs are bounded so that every value stays small and the *)
(* float arithmetic of the program is ordinary rational arithmetic.        *)
(* ''.join(tokens) is a sequence of one-character strings (Text).          *)
(***************************************************************************)
EXTENDS Integers, Sequences, FiniteSets, TLC

(***************************************************************************)
(* Tokens                                                                  *)
(***************************************************************************)
\* tokenizer: the three bracket families
OPEN_BRACKETS == <<"(", "[", "{">>

CLOSE_BRACKETS == <<")", "]", "}">>

\* BRACKET_PAIRS.get(open): the closing delimiter of an opening one
BRACKET_PAIRS(open) ==
    CASE open = "(" -> ")"
      [] open = "[" -> "]"
      [] open = "{" -> "}"
      [] OTHER -> "None"

\* operators = ['+', '-', '*', '/', '^']
operators == <<"+", "-", "*", "/", "^">>

InList(x, list) == \E i \in 1..Len(list) : list[i] = x

Op(c) == [k |-> "op", s |-> c, n |-> 0, d |-> 1]

Br(c) == [k |-> "br", s |-> c, n |-> 0, d |-> 1]

\* a numeric literal in the spelling str() gives its value
Num(v) == [k |-> "num", s |-> "", n |-> v, d |-> 1]

\* a numeric literal n/d (lowest terms, d > 0), spelled as str(float) spells it
Frac(nn, dd) == [k |-> "num", s |-> "", n |-> nn, d |-> dd]

\* an integer literal the user spelled with a trailing ".0" (e.g. "2.0")
NumDot(v) == [k |-> "num", s |-> ".0", n |-> v, d |-> 1]

\* token in OPEN_BRACKETS / CLOSE_BRACKETS / operators
IsOpen(t) == t.k = "br" /\ InList(t.s, OPEN_BRACKETS)

IsClose(t) == t.k = "br" /\ InList(t.s, CLOSE_BRACKETS)

IsBracket(t) == IsOpen(t) \/ IsClose(t)

IsOperator(t) == t.k = "op" /\ InList(t.s, operators)

IsNum(t) == t.k = "num"

\* tokens[a:b] of Python with 0-based a, b already clipped to 0..len:
\* the 1-based elements a+1 .. b
Slice(tokens, a, b) == SubSeq(tokens, a + 1, b)

(***************************************************************************)
(* Rational arithmetic standing for the float arithmetic                   *)
(***************************************************************************)
Abs(x) == IF x < 0 THEN -x ELSE x

RECURSIVE GCD(_, _)
GCD(a, b) == IF b = 0 THEN a ELSE GCD(b, a % b)

\* the rational a/b (b # 0) in lowest terms with a positive denominator
Norm(a, b) ==
    LET g == GCD(Abs(a), Abs(b))
        sg == IF b < 0 THEN -1 ELSE 1
    IN [n |-> sg * (a \div g), d |-> sg * (b \div g)]

RECURSIVE IntPow(_, _)
IntPow(b, e) == IF e = 0 THEN 1 ELSE b * IntPow(b, e - 1)

(***************************************************************************)
(* ''.join(tokens): the canonical expression text                          *)
(***************************************************************************)
DigitChar == <<"0", "1", "2", "3", "4", "5", "6", "7", "8", "9">>

RECURSIVE Digits(_)
Digits(v) ==
    IF v < 10 THEN <<DigitChar[v + 1]>>
    ELSE Digits(v \div 10) \o <<DigitChar[(v % 10) + 1]>>

\* the digits after the decimal point of r/d (0 <= r < d); repr(float) stops
\* after the digits that identify the float, the model after MaxFracDigits
MaxFracDigits == 4

RECURSIVE FracDigits(_, _, _)
FracDigits(r, d, left) ==
    IF r = 0 THEN <<>>
    ELSE IF left = 0 THEN <<"~">>
    ELSE <<DigitChar[((10 * r) \div d) + 1]>> \o FracDigits((10 * r) % d, d, left - 1)

\* the characters of one token
TokText(t) ==
    IF t.k # "num" THEN <<t.s>>
    ELSE LET a == Abs(t.n)
             sign == IF t.n < 0 THEN <<"-">> ELSE <<>>
         IN IF t.d = 1
            THEN sign \o Digits(a) \o (IF t.s = ".0" THEN <<".", "0">> ELSE <<>>)
            ELSE sign \o Digits(a \div t.d) \o <<".">> \o FracDigits(a % t.d, t.d, MaxFracDigits)

RECURSIVE Text(_)
Text(tokens) ==
    IF tokens = <<>> THEN <<>>
    ELSE TokText(Head(tokens)) \o Text(Tail(tokens))

(***************************************************************************)
(* Bracket and term analysis (graph_builder2.py).  Indices are the 0-based *)
(* indices of the Python lists; At(tokens, i) is tokens[i].                *)
(***************************************************************************)
At(tokens, i) == tokens[i + 1]

\* insert group g into the list sorted by the key (start, -(end - start))
RECURSIVE InsertGroup(_, _)
InsertGroup(sorted, g) ==
    IF sorted = <<>> THEN <<g>>
    ELSE LET h == Head(sorted)
         IN IF g[1] < h[1] \/ (g[1] = h[1] /\ (g[2] - g[1]) > (h[2] - h[1]))
            THEN <<g>> \o sorted
            ELSE <<h>> \o InsertGroup(Tail(sorted), g)

\* groups.sort(key=lambda x: (x[0], -(x[1] - x[0]))), a stable sort
RECURSIVE SortGroups(_)
SortGroups(groups) ==
    IF groups = <<>> THEN <<>>
    ELSE InsertGroup(SortGroups(SubSeq(groups, 1, Len(groups) - 1)), groups[Len(groups)])

\* the loop of find_bracket_groups(tokens, outermost_only=False): a stack of
\* (open_bracket_char, start_index); a close bracket pops the stack and records
\* the group when the two delimiters are of one family
RECURSIVE BracketScan(_, _, _, _)
BracketScan(tokens, i, stack, groups) ==
    IF i >= Len(tokens) THEN groups
    ELSE LET token == At(tokens, i)
         IN IF IsOpen(token)
            THEN BracketScan(tokens, i + 1, Append(stack, <<token.s, i>>), groups)
            ELSE IF IsClose(token) /\ stack # <<>>
            THEN LET top == stack[Len(stack)]
                     rest == SubSeq(stack, 1, Len(stack) - 1)
                 IN IF BRACKET_PAIRS(top[1]) = token.s
                    THEN BracketScan(tokens, i + 1, rest, Append(groups, <<top[2], i>>))
                    ELSE BracketScan(tokens, i + 1, rest, groups)
            ELSE BracketScan(tokens, i + 1, stack, groups)

\* find_bracket_groups(tokens, outermost_only=False): every caller of the
\* modelled operations passes outermost_only=False (include_nested=True)
find_bracket_groups(tokens) == SortGroups(BracketScan(tokens, 0, <<>>, <<>>))

\* get_bracket_content(tokens, start, end) = tokens[start + 1:end]
get_bracket_content(tokens, start, end) == Slice(tokens, start + 1, end)

\* the while loop of parse_bracket_terms(tokens, split_all_operators=False);
\* a term is <<sign, term_tokens>>
RECURSIVE ParseTermsLoop(_, _, _, _, _, _)
ParseTermsLoop(tokens, i, terms, current_sign, current_term, depth) ==
    IF i >= Len(tokens)
    THEN IF current_term # <<>> THEN Append(terms, <<current_sign, current_term>>) ELSE terms
    ELSE LET token == At(tokens, i)
         IN IF IsOpen(token)
            THEN ParseTermsLoop(tokens, i + 1, terms, current_sign,
                                Append(current_term, token), depth + 1)
            ELSE IF IsClose(token)
            THEN ParseTermsLoop(tokens, i + 1, terms, current_sign,
                                Append(current_term, token), depth - 1)
            ELSE IF token.k = "op" /\ token.s \in {"+", "-"} /\ depth = 0 /\ current_term # <<>>
            THEN ParseTermsLoop(tokens, i + 1, Append(terms, <<current_sign, current_term>>),
                                token.s, <<>>, depth)
            ELSE ParseTermsLoop(tokens, i + 1, terms, current_sign,
                                Append(current_term, token), depth)

parse_bracket_terms(tokens) ==
    IF tokens = <<>> THEN <<>>
    ELSE ParseTermsLoop(tokens, 0, <<>>, "+", <<>>, 0)

\* drop_brackets that keeps the closing bracket
drop_open_bracket(tokens, bracket_start, bracket_end) ==
    Slice(tokens, 0, bracket_start) \o Slice(tokens, bracket_start + 1, Len(tokens))

\* drop_brackets(tokens, bracket_start, bracket_end)
drop_brackets(tokens, bracket_start, bracket_end) ==
    LET inner == Slice(tokens, bracket_start + 1, bracket_end)
    IN Slice(tokens, 0, bracket_start) \o inner \o Slice(tokens, bracket_end + 1, Len(tokens))

\* the index just after the bracket group opening at `open` (the j of the
\* depth-counting while loops scanning to the right)
RECURSIVE ScanRight(_, _, _)
ScanRight(tokens, j, depth) ==
    IF j < Len(tokens) /\ depth > 0
    THEN ScanRight(tokens, j + 1,
                   IF IsOpen(At(tokens, j)) THEN depth + 1
                   ELSE IF IsClose(At(tokens, j)) THEN depth - 1 ELSE depth)
    ELSE j

\* the j of the depth-counting while loops scanning to the left
RECURSIVE ScanLeft(_, _, _)
ScanLeft(tokens, j, depth) ==
    IF j >= 0 /\ depth > 0
    THEN ScanLeft(tokens, j - 1,
                  IF IsClose(At(tokens, j)) THEN depth + 1
                  ELSE IF IsOpen(At(tokens, j)) THEN depth - 1 ELSE depth)
    ELSE j

NoneTokens == <<Op("None")>>

\* wrap a term in fresh round brackets when it has more than one token or
\* starts with an open bracket
WrapTerm(term_tokens) ==
    IF Len(term_tokens) > 1 \/ (term_tokens # <<>> /\ IsOpen(term_tokens[1]))
    THEN <<Br("(")>> \o term_tokens \o <<Br(")")>>
    ELSE term_tokens

\* the for loop of distribute_bracket without its op_side test: every term is
\* combined as term OP operand
RECURSIVE DistributeLoopOneSide(_, _, _, _, _, _)
DistributeLoopOneSide(terms, i, op_side, outer_operator, outer_operand, distributed_inner) ==
    IF i >= Len(terms) THEN distributed_inner
    ELSE LET raw == terms[i + 1][2]
             lead == IF i > 0 THEN <<Op(terms[i + 1][1])>> ELSE <<>>
             piece == WrapTerm(raw) \o <<outer_operator>> \o outer_operand
         IN DistributeLoopOneSide(terms, i + 1, op_side, outer_operator, outer_operand,
                                  distributed_inner \o lead \o piece)

\* the for loop of distribute_bracket building distributed_inner
RECURSIVE DistributeLoop(_, _, _, _, _, _)
DistributeLoop(terms, i, op_side, outer_operator, outer_operand, distributed_inner) ==
    IF i >= Len(terms) THEN distributed_inner
    ELSE LET sign == terms[i + 1][1]
             raw == terms[i + 1][2]
             term_tokens ==
                 IF i = 0 /\ sign = "-" /\ raw # <<>>
                    /\ ~(raw[1].k = "op" /\ raw[1].s \in {"+", "-"})
                 THEN <<Op("-")>> \o raw
                 ELSE raw
             lead == IF i > 0 THEN <<Op(sign)>> ELSE <<>>
             piece == IF op_side = "right"
                      THEN WrapTerm(term_tokens) \o <<outer_operator>> \o outer_operand
                      ELSE outer_operand \o <<outer_operator>> \o WrapTerm(term_tokens)
         IN DistributeLoop(terms, i + 1, op_side, outer_operator, outer_operand,
                           distributed_inner \o lead \o piece)

\* distribute_bracket(...): the new token list, or NoneTokens for None
distribute_bracket(tokens, bracket_start, bracket_end, op_side, op_index, outer_operand) ==
    LET inner_tokens == get_bracket_content(tokens, bracket_start, bracket_end)
        outer_operator == At(tokens, op_index)
        terms == parse_bracket_terms(inner_tokens)
        distributed == <<Br("(")>>
                       \o DistributeLoop(terms, 0, op_side, outer_operator, outer_operand, <<>>)
                       \o <<Br(")")>>
    IN IF Len(terms) <= 1 THEN NoneTokens
       ELSE IF op_side = "right"
       THEN LET before == Slice(tokens, 0, bracket_start)
                after_operand_idx == op_index + 1
                after == IF IsOpen(At(tokens, after_operand_idx))
                         THEN Slice(tokens, ScanRight(tokens, after_operand_idx + 1, 1), Len(tokens))
                         ELSE Slice(tokens, after_operand_idx + 1, Len(tokens))
            IN before \o distributed \o after
       ELSE LET before_operand_idx == op_index - 1
                before == IF IsClose(At(tokens, before_operand_idx))
                          THEN Slice(tokens, 0, ScanLeft(tokens, before_operand_idx - 1, 1) + 1)
                          ELSE Slice(tokens, 0, before_operand_idx)
                after == Slice(tokens, bracket_end + 1, Len(tokens))
            IN before \o distributed \o after

\* one dict of find_distributable_brackets
Dist(start, end, side, op_index, operator, operand) ==
    [bracket_start |-> start, bracket_end |-> end, op_side |-> side,
     op_index |-> op_index, operator |-> operator, operand |-> operand]

\* the "operator on the right" block of find_distributable_brackets for one group
DistRight(tokens, start, end) ==
    IF end + 1 < Len(tokens) /\ IsOperator(At(tokens, end + 1))
    THEN LET op_index == end + 1
             operator == At(tokens, op_index)
             operand_start == op_index + 1
         IN IF op_index + 1 < Len(tokens)
            THEN LET operand == IF IsOpen(At(tokens, operand_start))
                                THEN Slice(tokens, operand_start,
                                           ScanRight(tokens, operand_start + 1, 1))
                                ELSE <<At(tokens, operand_start)>>
                 IN IF operator.s = "/" /\ IsOpen(At(tokens, operand_start))
                    THEN <<>>
                    ELSE <<Dist(start, end, "right", op_index, operator, operand)>>
            ELSE <<>>
    ELSE <<>>

\* the "operator on the left" block of find_distributable_brackets for one group
DistLeft(tokens, start, end) ==
    IF start > 0 /\ IsOperator(At(tokens, start - 1))
    THEN LET op_index == start - 1
             operator == At(tokens, op_index)
             operand_end == op_index - 1
         IN IF op_index > 0
            THEN LET operand == IF IsClose(At(tokens, operand_end))
                                THEN Slice(tokens, ScanLeft(tokens, operand_end - 1, 1) + 1,
                                           operand_end + 1)
                                ELSE <<At(tokens, operand_end)>>
                 IN IF operator.s = "/"
                    THEN <<>>
                    ELSE <<Dist(start, end, "left", op_index, operator, operand)>>
            ELSE <<>>
    ELSE <<>>

RECURSIVE DistributableLoop(_, _, _)
DistributableLoop(tokens, groups, g) ==
    IF g > Len(groups) THEN <<>>
    ELSE DistRight(tokens, groups[g][1], groups[g][2])
         \o DistLeft(tokens, groups[g][1], groups[g][2])
         \o DistributableLoop(tokens, groups, g + 1)

\* find_distributable_brackets(tokens, include_nested=True)
find_distributable_brackets(tokens) ==
    DistributableLoop(tokens, find_bracket_groups(tokens), 1)

\* tokens[i] for an index that may be negative (Python counts from the end)
PyAt(tokens, i) == IF i < 0 THEN tokens[Len(tokens) + i + 1] ELSE tokens[i + 1]

\* tokens[:b] for a bound that may be negative
PyPrefix(tokens, b) ==
    IF b < 0 THEN SubSeq(tokens, 1, Len(tokens) + b) ELSE SubSeq(tokens, 1, b)

\* find_evaluatable_operations raises IndexError at tokens[i + 1] when an
\* operator is the last token
EvaluatableRaises(tokens) ==
    Len(tokens) > 0 /\ IsOperator(tokens[Len(tokens)])

RECURSIVE EvaluatableLoop(_, _)
EvaluatableLoop(tokens, i) ==
    IF i >= Len(tokens) THEN <<>>
    ELSE (IF IsOperator(At(tokens, i))
             /\ ~IsBracket(PyAt(tokens, i - 1)) /\ ~IsBracket(At(tokens, i + 1))
          THEN <<<<i, At(tokens, i).s>>>>
          ELSE <<>>)
         \o EvaluatableLoop(tokens, i + 1)

\* find_evaluatable_operations(tokens): the list of (index, operator)
find_evaluatable_operations(tokens) == EvaluatableLoop(tokens, 0)

\* the inner while loop of simplify_brackets: one left-to-right pass; the
\* result is <<tokens, changed>>
RECURSIVE SimplifyPass(_, _, _)
SimplifyPass(tokens, i, changed) ==
    IF i < Len(tokens) - 2
    THEN IF IsOpen(At(tokens, i))
            /\ ~IsBracket(At(tokens, i + 1)) /\ ~IsOperator(At(tokens, i + 1))
            /\ At(tokens, i + 2).k = "br"
            /\ At(tokens, i + 2).s = BRACKET_PAIRS(At(tokens, i).s)
         THEN SimplifyPass(Slice(tokens, 0, i) \o <<At(tokens, i + 1)>>
                           \o Slice(tokens, i + 3, Len(tokens)), i, TRUE)
         ELSE SimplifyPass(tokens, i + 1, changed)
    ELSE <<tokens, changed>>

\* simplify_brackets without the outer `while changed` loop: one pass
simplify_one_pass(tokens) == SimplifyPass(tokens, 0, FALSE)[1]

\* simplify_brackets(tokens): passes repeated while one changed something
RECURSIVE simplify_brackets(_)
simplify_brackets(tokens) ==
    LET pass == SimplifyPass(tokens, 0, FALSE)
    IN IF pass[2] THEN simplify_brackets(pass[1]) ELSE pass[1]

(***************************************************************************)
(* Arithmetic of perform_operation / compute_same_operator_result.         *)
(* A value is [n, d]; a computation is [ok, n, d], ok = FALSE when Python  *)
(* raises (ValueError, ZeroDivisionError, TypeError).                      *)
(***************************************************************************)
Failed == [ok |-> FALSE, n |-> 0, d |-> 1]

Value(a, b) == LET r == Norm(a, b) IN [ok |-> TRUE, n |-> r.n, d |-> r.d]

\* left ** right.  A negative base with a fractional exponent is a complex
\* number, on which int(result) raises TypeError; 0 to a negative power raises
\* ZeroDivisionError.  A positive base other than 1 with a fractional exponent
\* is outside the model: the bounded inputs never produce one.
Power(l, r) ==
    IF r.d = 1
    THEN IF r.n >= 0 THEN Value(IntPow(l.n, r.n), IntPow(l.d, r.n))
         ELSE IF l.n = 0 THEN Failed
         ELSE Value(IntPow(l.d, -r.n), IntPow(l.n, -r.n))
    ELSE IF l.n < 0 THEN Failed
    ELSE IF l.n = 0 THEN (IF r.n < 0 THEN Failed ELSE Value(0, 1))
    ELSE IF l.n = l.d THEN Value(1, 1)
    ELSE CHOOSE v \in {} : TRUE

\* the if / elif chain over the operator
Compute(l, operator, r) ==
    CASE operator = "+" -> Value(l.n * r.d + r.n * l.d, l.d * r.d)
      [] operator = "-" -> Value(l.n * r.d - r.n * l.d, l.d * r.d)
      [] operator = "*" -> Value(l.n * r.n, l.d * r.d)
      [] operator = "/" -> IF r.n = 0 THEN Failed ELSE Value(l.n * r.d, l.d * r.n)
      [] operator = "^" -> Power(l, r)
      [] OTHER -> Failed

\* str(int(result)) when result == int(result), str(result) otherwise
FormatResult(v) == IF v.d = 1 THEN Num(v.n) ELSE Frac(v.n, v.d)

\* perform_operation that puts the result in the place of the left operand
\* only and leaves the operator behind it
perform_on_left_operand(tokens, op_index, operator) ==
    LET left == PyAt(tokens, op_index - 1)
        right == At(tokens, op_index + 1)
    IN IF ~IsNum(left) \/ ~IsNum(right) THEN [ok |-> FALSE, tokens |-> <<>>]
       ELSE LET result == Compute(left, operator, right)
            IN IF ~result.ok THEN [ok |-> FALSE, tokens |-> <<>>]
               ELSE [ok |-> TRUE,
                     tokens |-> simplify_brackets(
                         PyPrefix(tokens, op_index - 1) \o <<FormatResult(result)>>
                         \o <<At(tokens, op_index)>>
                         \o Slice(tokens, op_index + 2, Len(tokens)))]

\* perform_operation that hands the rewritten tokens back as they are
perform_without_simplify(tokens, op_index, operator) ==
    LET left == PyAt(tokens, op_index - 1)
        right == At(tokens, op_index + 1)
    IN IF ~IsNum(left) \/ ~IsNum(right) THEN [ok |-> FALSE, tokens |-> <<>>]
       ELSE LET result == Compute(left, operator, right)
            IN IF ~result.ok THEN [ok |-> FALSE, tokens |-> <<>>]
               ELSE [ok |-> TRUE,
                     tokens |-> PyPrefix(tokens, op_index - 1) \o <<FormatResult(result)>>
                                \o Slice(tokens, op_index + 2, Len(tokens))]

\* perform_operation(tokens, op_index, operator): [ok, tokens]; ok = FALSE
\* when it raises (float() of a non-number, division by zero, ...)
perform_operation(tokens, op_index, operator) ==
    LET left == PyAt(tokens, op_index - 1)
        right == At(tokens, op_index + 1)
    IN IF ~IsNum(left) \/ ~IsNum(right) THEN [ok |-> FALSE, tokens |-> <<>>]
       ELSE LET result == Compute(left, operator, right)
            IN IF ~result.ok THEN [ok |-> FALSE, tokens |-> <<>>]
               ELSE [ok |-> TRUE,
                     tokens |-> simplify_brackets(
                         PyPrefix(tokens, op_index - 1) \o <<FormatResult(result)>>
                         \o Slice(tokens, op_index + 2, Len(tokens)))]

\* is_same_operator_expression(tokens): <<is_same_op, operator>>, operator
\* "None" for None
RECURSIVE SameOperatorLoop(_, _, _)
SameOperatorLoop(tokens, i, found_operator) ==
    IF i >= Len(tokens)
    THEN IF found_operator # "None" THEN <<TRUE, found_operator>> ELSE <<FALSE, "None">>
    ELSE LET token == At(tokens, i)
         IN IF IsBracket(token) THEN <<FALSE, "None">>
            ELSE IF IsOperator(token)
            THEN IF found_operator = "None" THEN SameOperatorLoop(tokens, i + 1, token.s)
                 ELSE IF token.s # found_operator THEN <<FALSE, "None">>
                 ELSE SameOperatorLoop(tokens, i + 1, found_operator)
            ELSE SameOperatorLoop(tokens, i + 1, found_operator)

is_same_operator_expression(tokens) == SameOperatorLoop(tokens, 0, "None")

\* numbers = [float(t) for t in tokens if t != operator]
RECURSIVE NumbersOf(_, _)
NumbersOf(tokens, operator) ==
    IF tokens = <<>> THEN <<>>
    ELSE (IF Head(tokens).k = "op" /\ Head(tokens).s = operator THEN <<>> ELSE <<Head(tokens)>>)
         \o NumbersOf(Tail(tokens), operator)

\* the left-to-right fold of compute_same_operator_result
RECURSIVE FoldNumbers(_, _, _, _)
FoldNumbers(result, numbers, i, operator) ==
    IF i > Len(numbers) \/ ~result.ok THEN result
    ELSE FoldNumbers(Compute(result, operator, numbers[i]), numbers, i + 1, operator)

\* compute_same_operator_result(tokens, operator): [ok, token]
compute_same_operator_result(tokens, operator) ==
    LET numbers == NumbersOf(tokens, operator)
    IN IF \E i \in 1..Len(numbers) : ~IsNum(numbers[i])
       THEN [ok |-> FALSE, token |-> Num(0)]
       ELSE IF numbers = <<>>
       THEN [ok |-> TRUE, token |-> IF tokens # <<>> THEN tokens[1] ELSE Num(0)]
       ELSE LET result == FoldNumbers(Value(numbers[1].n, numbers[1].d), numbers, 2, operator)
            IN [ok |-> result.ok, token |-> FormatResult(result)]

(***************************************************************************)
(* Action discovery of the graph builder: ExpressionGraph2._find_all_actions*)
(***************************************************************************)
\* a description string: the f-string's fixed words and its formatted pieces
Describe(words, l, op, r) == [d |-> words, l |-> l, op |-> op, r |-> r]

GraphAction(type, description, result_tokens) ==
    [type |-> type, description |-> description, result_tokens |-> result_tokens]

\* add_action: append unless an earlier action of this state has the same
\* ''.join(result_tokens)
add_action(actions, action) ==
    IF \E i \in 1..Len(actions) : Text(actions[i].result_tokens) = Text(action.result_tokens)
    THEN actions
    ELSE Append(actions, action)

\* step 1 of _find_all_actions: one distribute action per distributable bracket
RECURSIVE DistributeActions(_, _, _, _)
DistributeActions(tokens, distributable, i, actions) ==
    IF i > Len(distributable) THEN actions
    ELSE LET dist == distributable[i]
             inner == Text(get_bracket_content(tokens, dist.bracket_start, dist.bracket_end))
             result == distribute_bracket(tokens, dist.bracket_start, dist.bracket_end,
                                          dist.op_side, dist.op_index, dist.operand)
         IN DistributeActions(tokens, distributable, i + 1,
                IF result # NoneTokens
                THEN add_action(actions,
                                GraphAction("distribute",
                                            Describe("Distribute", inner, dist.operator.s,
                                                     Text(dist.operand)),
                                            simplify_brackets(result)))
                ELSE actions)

\* step 2 of _find_all_actions: one drop_brackets action per bracket group
RECURSIVE DropActions(_, _, _, _)
DropActions(tokens, groups, i, actions) ==
    IF i > Len(groups) THEN actions
    ELSE LET start == groups[i][1]
             end == groups[i][2]
             inner == Text(get_bracket_content(tokens, start, end))
         IN DropActions(tokens, groups, i + 1,
                add_action(actions,
                           GraphAction("drop_brackets",
                                       Describe("Drop brackets", inner, "", <<>>),
                                       simplify_brackets(drop_brackets(tokens, start, end)))))

\* step 3 of _find_all_actions: one evaluate action per evaluatable operation
\* whose perform_operation does not raise
RECURSIVE EvaluateActions(_, _, _, _)
EvaluateActions(tokens, operations, i, actions) ==
    IF i > Len(operations) THEN actions
    ELSE LET op_index == operations[i][1]
             operator == operations[i][2]
             result == perform_operation(tokens, op_index, operator)
         IN EvaluateActions(tokens, operations, i + 1,
                IF result.ok
                THEN add_action(actions,
                                GraphAction("evaluate",
                                            Describe("Compute",
                                                     TokText(PyAt(tokens, op_index - 1)),
                                                     operator,
                                                     TokText(At(tokens, op_index + 1))),
                                            result.tokens))
                ELSE actions)

\* _find_all_actions(tokens), when find_evaluatable_operations does not raise
find_all_actions(tokens) ==
    LET a1 == DistributeActions(tokens, find_distributable_brackets(tokens), 1, <<>>)
        a2 == DropActions(tokens, find_bracket_groups(tokens), 1, a1)
    IN EvaluateActions(tokens, find_evaluatable_operations(tokens), 1, a2)

(***************************************************************************)
(* Precedence maps, actions and policies (policies.py)                     *)
(***************************************************************************)
PRECEDENCE_BODMAS == [o \in {"+", "-", "*", "/", "^"} |->
    CASE o \in {"+", "-"} -> 1 [] o \in {"*", "/"} -> 2 [] OTHER -> 3]

PRECEDENCE_ADDITION_FIRST == [o \in {"+", "-", "*", "/", "^"} |->
    CASE o \in {"+", "-"} -> 3 [] o \in {"*", "/"} -> 1 [] OTHER -> 2]

PRECEDENCE_MULTIPLICATION_FIRST == [o \in {"+", "-", "*", "/", "^"} |->
    CASE o = "*" -> 3 [] o \in {"/", "^"} -> 2 [] OTHER -> 1]

PRECEDENCE_FLAT == [o \in {"+", "-", "*", "/", "^"} |-> 1]

PRECEDENCE_MAPS(name) ==
    CASE name = "bodmas" -> PRECEDENCE_BODMAS
      [] name = "addition_first" -> PRECEDENCE_ADDITION_FIRST
      [] name = "multiplication_first" -> PRECEDENCE_MULTIPLICATION_FIRST
      [] name = "flat" -> PRECEDENCE_FLAT

\* Action(action_type, operator, operator_index, description); operator is
\* "None" for None
Action(action_type, operator, operator_index, description) ==
    [action_type |-> action_type, operator |-> operator,
     operator_index |-> operator_index, description |-> description]

\* Action.__eq__: the description does not take part
ActionEq(a, b) ==
    /\ a.action_type = b.action_type
    /\ a.operator = b.operator
    /\ a.operator_index = b.operator_index

\* prec_map = precedence_map or PRECEDENCE_BODMAS
PrecOr(precedence_map) ==
    IF DOMAIN precedence_map = {} THEN PRECEDENCE_BODMAS ELSE precedence_map

\* prec_map.get(operator, 0)
PrecGet(prec_map, operator) ==
    IF operator \in DOMAIN prec_map THEN prec_map[operator] ELSE 0

\* get_evaluate_actions(actions)
get_evaluate_actions(actions) == SelectSeq(actions, LAMBDA a : a.action_type = "evaluate")

\* max(...) / min(...) over a non-empty list of integers
MaxOf(list) == CHOOSE m \in {list[i] : i \in 1..Len(list)} :
                   \A i \in 1..Len(list) : list[i] <= m

MinOf(list) == CHOOSE m \in {list[i] : i \in 1..Len(list)} :
                   \A i \in 1..Len(list) : list[i] >= m

\* HighestPrecedenceFirst with min(...) in place of max(...)
LowestPrecedenceFirst(state, action, available_actions, precedence_map) ==
    IF action.action_type # "evaluate" THEN TRUE
    ELSE LET prec_map == PrecOr(precedence_map)
             eval_actions == get_evaluate_actions(available_actions)
         IN IF eval_actions = <<>> THEN TRUE
            ELSE LET min_prec == MinOf([i \in 1..Len(eval_actions) |->
                                         PrecGet(prec_map, eval_actions[i].operator)])
                 IN PrecGet(prec_map, action.operator) = min_prec

HighestPrecedenceFirst(state, action, available_actions, precedence_map) ==
    IF action.action_type # "evaluate" THEN TRUE
    ELSE LET prec_map == PrecOr(precedence_map)
             eval_actions == get_evaluate_actions(available_actions)
         IN IF eval_actions = <<>> THEN TRUE
            ELSE LET max_prec == MaxOf([i \in 1..Len(eval_actions) |->
                                         PrecGet(prec_map, eval_actions[i].operator)])
                 IN PrecGet(prec_map, action.operator) = max_prec

\* a direction policy that forgets the rank: the leftmost of all evaluate actions
LeftmostOfAnyRank(state, action, available_actions, precedence_map) ==
    IF action.action_type # "evaluate" THEN TRUE
    ELSE LET eval_actions == get_evaluate_actions(available_actions)
         IN IF eval_actions = <<>> THEN TRUE
            ELSE action.operator_index =
                 MinOf([i \in 1..Len(eval_actions) |-> eval_actions[i].operator_index])

LeftmostFirst(state, action, available_actions, precedence_map) ==
    IF action.action_type # "evaluate" THEN TRUE
    ELSE LET prec_map == PrecOr(precedence_map)
             my_prec == PrecGet(prec_map, action.operator)
             same_prec_actions ==
                 SelectSeq(get_evaluate_actions(available_actions),
                           LAMBDA a : PrecGet(prec_map, a.operator) = my_prec)
         IN IF same_prec_actions = <<>> THEN TRUE
            ELSE action.operator_index =
                 MinOf([i \in 1..Len(same_prec_actions) |-> same_prec_actions[i].operator_index])

RightmostFirst(state, action, available_actions, precedence_map) ==
    IF action.action_type # "evaluate" THEN TRUE
    ELSE LET prec_map == PrecOr(precedence_map)
             my_prec == PrecGet(prec_map, action.operator)
             same_prec_actions ==
                 SelectSeq(get_evaluate_actions(available_actions),
                           LAMBDA a : PrecGet(prec_map, a.operator) = my_prec)
         IN IF same_prec_actions = <<>> THEN TRUE
            ELSE action.operator_index =
                 MaxOf([i \in 1..Len(same_prec_actions) |-> same_prec_actions[i].operator_index])

LeftToRightStrict(state, action, available_actions, precedence_map) ==
    IF action.action_type # "evaluate" THEN TRUE
    ELSE LET eval_actions == get_evaluate_actions(available_actions)
         IN IF eval_actions = <<>> THEN TRUE
            ELSE action.operator_index =
                 MinOf([i \in 1..Len(eval_actions) |-> eval_actions[i].operator_index])

RightToLeftStrict(state, action, available_actions, precedence_map) ==
    IF action.action_type # "evaluate" THEN TRUE
    ELSE LET eval_actions == get_evaluate_actions(available_actions)
         IN IF eval_actions = <<>> THEN TRUE
            ELSE action.operator_index =
                 MaxOf([i \in 1..Len(eval_actions) |-> eval_actions[i].operator_index])

\* _is_inside_brackets(state, operator_index): the bracket depth just before
\* operator_index is positive
RECURSIVE DepthBefore(_, _, _, _)
DepthBefore(state, i, operator_index, depth) ==
    IF i >= operator_index THEN depth
    ELSE DepthBefore(state, i + 1, operator_index,
                     IF IsOpen(At(state, i)) THEN depth + 1
                     ELSE IF IsClose(At(state, i)) THEN depth - 1 ELSE depth)

is_inside_brackets(state, operator_index) == DepthBefore(state, 0, operator_index, 0) > 0

BracketsFirst(state, action, available_actions, precedence_map) ==
    LET eval_actions == get_evaluate_actions(available_actions)
        has_inside == \E i \in 1..Len(eval_actions) :
                          is_inside_brackets(state, eval_actions[i].operator_index)
    IN CASE action.action_type = "drop_brackets" -> FALSE
         [] action.action_type = "distribute" -> ~has_inside
         [] action.action_type = "evaluate" ->
                IF has_inside THEN is_inside_brackets(state, action.operator_index) ELSE TRUE
         [] OTHER -> TRUE

BracketsOptional(state, action, available_actions, precedence_map) ==
    action.action_type # "drop_brackets"

BracketsIgnored(state, action, available_actions, precedence_map) ==
    CASE action.action_type = "distribute" -> FALSE
      [] action.action_type = "drop_brackets" -> TRUE
      [] action.action_type = "evaluate" -> ~is_inside_brackets(state, action.operator_index)
      [] OTHER -> TRUE

PreferEvaluate(state, action, available_actions, precedence_map) ==
    LET has_evaluate == \E i \in 1..Len(available_actions) :
                            available_actions[i].action_type = "evaluate"
    IN ~(has_evaluate /\ action.action_type = "distribute")

PreferDistribute(state, action, available_actions, precedence_map) ==
    LET has_distribute == \E i \in 1..Len(available_actions) :
                              available_actions[i].action_type = "distribute"
    IN ~(has_distribute /\ action.action_type = "evaluate")

AllowAll(state, action, available_actions, precedence_map) == TRUE

\* POLICY_REGISTRY[name]().evaluate(state, action, available_actions, precedence_map)
\* for the policies the learner profiles attach
POLICY_REGISTRY(name, state, action, available_actions, precedence_map) ==
    CASE name = "highest_precedence_first" ->
             HighestPrecedenceFirst(state, action, available_actions, precedence_map)
      [] name = "leftmost_first" ->
             LeftmostFirst(state, action, available_actions, precedence_map)
      [] name = "rightmost_first" ->
             RightmostFirst(state, action, available_actions, precedence_map)
      [] name = "left_to_right_strict" ->
             LeftToRightStrict(state, action, available_actions, precedence_map)
      [] name = "right_to_left_strict" ->
             RightToLeftStrict(state, action, available_actions, precedence_map)
      [] name = "brackets_first" ->
             BracketsFirst(state, action, available_actions, precedence_map)
      [] name = "brackets_optional" ->
             BracketsOptional(state, action, available_actions, precedence_map)
      [] name = "brackets_ignored" ->
             BracketsIgnored(state, action, available_actions, precedence_map)
      [] name = "prefer_evaluate" ->
             PreferEvaluate(state, action, available_actions, precedence_map)
      [] name = "prefer_distribute" ->
             PreferDistribute(state, action, available_actions, precedence_map)
      [] name = "allow_all" ->
             AllowAll(state, action, available_actions, precedence_map)

(***************************************************************************)
(* Learners (learner.py)                                                   *)
(***************************************************************************)
LearnerNames == {"expert", "bodmas_correct", "addition_first", "multiplication_first",
                 "left_to_right_only", "right_to_left", "novice", "bracket_ignorer",
                 "distributor", "bodmas_wrong_direction"}

\* LEARNER_PROFILES[name]: the precedence name and the policy names
LEARNER_PROFILES(name) ==
    CASE name = "expert" ->
             [precedence |-> "bodmas",
              policies |-> <<"highest_precedence_first", "leftmost_first",
                             "brackets_first", "prefer_evaluate">>]
      [] name = "bodmas_correct" ->
             [precedence |-> "bodmas",
              policies |-> <<"highest_precedence_first", "leftmost_first",
                             "brackets_optional">>]
      [] name = "addition_first" ->
             [precedence |-> "addition_first",
              policies |-> <<"highest_precedence_first", "leftmost_first",
                             "brackets_first">>]
      [] name = "multiplication_first" ->
             [precedence |-> "multiplication_first",
              policies |-> <<"highest_precedence_first", "leftmost_first",
                             "brackets_optional", "prefer_evaluate">>]
      [] name = "left_to_right_only" ->
             [precedence |-> "flat",
              policies |-> <<"left_to_right_strict", "brackets_optional">>]
      [] name = "right_to_left" ->
             [precedence |-> "flat",
              policies |-> <<"right_to_left_strict", "brackets_optional">>]
      [] name = "novice" ->
             [precedence |-> "flat", policies |-> <<"allow_all">>]
      [] name = "bracket_ignorer" ->
             [precedence |-> "flat",
              policies |-> <<"left_to_right_strict", "brackets_ignored">>]
      [] name = "distributor" ->
             [precedence |-> "bodmas",
              policies |-> <<"highest_precedence_first", "leftmost_first",
                             "brackets_optional", "prefer_distribute">>]
      [] name = "bodmas_wrong_direction" ->
             [precedence |-> "bodmas",
              policies |-> <<"highest_precedence_first", "rightmost_first",
                             "brackets_first">>]

\* Learner.__init__ through create_learner(name): the policy list and the
\* precedence map of the profile
Learner(name) ==
    [name |-> name,
     policies |-> LEARNER_PROFILES(name).policies,
     precedence_map |-> PRECEDENCE_MAPS(LEARNER_PROFILES(name).precedence)]

\* all(policy.evaluate(...) for policy in self.policies): the policies are
\* asked in order and the first False ends the iteration
RECURSIVE AllPolicies(_, _, _, _, _)
AllPolicies(learner, i, state, action, available_actions) ==
    IF i > Len(learner.policies) THEN TRUE
    ELSE IF ~POLICY_REGISTRY(learner.policies[i], state, action, available_actions,
                             learner.precedence_map)
    THEN FALSE
    ELSE AllPolicies(learner, i + 1, state, action, available_actions)

\* Learner.is_valid with any(...) in place of all(...)
is_valid_any(learner, state, action, available_actions) ==
    \E i \in 1..Len(learner.policies) :
        POLICY_REGISTRY(learner.policies[i], state, action, available_actions,
                        learner.precedence_map)

\* Learner.is_valid(state, action, available_actions)
is_valid(learner, state, action, available_actions) ==
    AllPolicies(learner, 1, state, action, available_actions)

\* Learner.valid_actions(state, available_actions): the list comprehension
RECURSIVE ValidLoop(_, _, _, _)
ValidLoop(learner, state, available_actions, i) ==
    IF i > Len(available_actions) THEN <<>>
    ELSE (IF is_valid(learner, state, available_actions[i], available_actions)
          THEN <<available_actions[i]>> ELSE <<>>)
         \o ValidLoop(learner, state, available_actions, i + 1)

valid_actions(learner, state, available_actions) ==
    ValidLoop(learner, state, available_actions, 1)

(***************************************************************************)
(* Walker (learner_integration.py)                                         *)
(***************************************************************************)
\* step 1 of extract_actions_from_tokens: one evaluate action per evaluatable
\* operation
ExtractEvaluate(tokens) ==
    LET operations == find_evaluatable_operations(tokens)
    IN [i \in 1..Len(operations) |->
           LET op_index == operations[i][1]
               operator == operations[i][2]
           IN Action("evaluate", operator, op_index,
                     Describe("Compute", TokText(PyAt(tokens, op_index - 1)), operator,
                              TokText(At(tokens, op_index + 1))))]

\* has_additive_ops = any(t in ['+', '-'] for t in inner_tokens)
has_additive_ops(inner_tokens) ==
    \E i \in 1..Len(inner_tokens) :
        inner_tokens[i].k = "op" /\ inner_tokens[i].s \in {"+", "-"}

\* step 2 of extract_actions_from_tokens
RECURSIVE ExtractDistribute(_, _, _)
ExtractDistribute(tokens, distributable, i) ==
    IF i > Len(distributable) THEN <<>>
    ELSE LET dist == distributable[i]
             inner_tokens == get_bracket_content(tokens, dist.bracket_start, dist.bracket_end)
         IN (IF has_additive_ops(inner_tokens)
             THEN <<Action("distribute", dist.operator.s, dist.op_index,
                           Describe("Distribute", Text(inner_tokens), dist.operator.s,
                                    Text(dist.operand)))>>
             ELSE <<>>)
            \o ExtractDistribute(tokens, distributable, i + 1)

\* step 3 of extract_actions_from_tokens
ExtractDrop(tokens) ==
    LET bracket_groups == find_bracket_groups(tokens)
    IN [i \in 1..Len(bracket_groups) |->
           Action("drop_brackets", "None", bracket_groups[i][1],
                  Describe("Drop brackets", 
                           Text(get_bracket_content(tokens, bracket_groups[i][1],
                                                    bracket_groups[i][2])),
                           "", <<>>))]

\* extract_actions_from_tokens(tokens), when find_evaluatable_operations does
\* not raise
extract_actions_from_tokens(tokens) ==
    ExtractEvaluate(tokens)
    \o ExtractDistribute(tokens, find_distributable_brackets(tokens), 1)
    \o ExtractDrop(tokens)

\* the distribute branch of _execute_action: the first distributable bracket
\* with the action's operator index whose distribution is not None
RECURSIVE ExecuteDistribute(_, _, _, _)
ExecuteDistribute(tokens, action, distributable, i) ==
    IF i > Len(distributable) THEN NoneTokens
    ELSE LET dist == distributable[i]
             result == distribute_bracket(tokens, dist.bracket_start, dist.bracket_end,
                                          dist.op_side, dist.op_index, dist.operand)
         IN IF dist.op_index = action.operator_index /\ result # NoneTokens
            THEN simplify_brackets(result)
            ELSE ExecuteDistribute(tokens, action, distributable, i + 1)

\* the drop_brackets branch of _execute_action
RECURSIVE ExecuteDrop(_, _, _, _)
ExecuteDrop(tokens, action, bracket_groups, i) ==
    IF i > Len(bracket_groups) THEN NoneTokens
    ELSE IF bracket_groups[i][1] = action.operator_index
    THEN simplify_brackets(drop_brackets(tokens, bracket_groups[i][1], bracket_groups[i][2]))
    ELSE ExecuteDrop(tokens, action, bracket_groups, i + 1)

\* LearnerGraphWalker._execute_action(tokens, action): the new token list, or
\* NoneTokens for None (no match, or an exception caught)
execute_action(tokens, action) ==
    CASE action.action_type = "evaluate" ->
             LET result == perform_operation(tokens, action.operator_index, action.operator)
             IN IF result.ok THEN result.tokens ELSE NoneTokens
      [] action.action_type = "distribute" ->
             ExecuteDistribute(tokens, action, find_distributable_brackets(tokens), 1)
      [] action.action_type = "drop_brackets" ->
             ExecuteDrop(tokens, action, find_bracket_groups(tokens), 1)
      [] OTHER -> NoneTokens

(***************************************************************************)
(* Inputs: the token sequences tokenize + validate_tokens let through      *)
(* (tokenizer.py)                                                          *)
(***************************************************************************)
\* the for loop of validate_tokens: FALSE where it raises ValueError
RECURSIVE ValidateLoop(_, _, _)
ValidateLoop(tokens, i, paren_depth) ==
    IF i >= Len(tokens) THEN paren_depth = 0
    ELSE LET token == At(tokens, i)
             depth == IF token = Br("(") THEN paren_depth + 1
                      ELSE IF token = Br(")") THEN paren_depth - 1
                      ELSE paren_depth
         IN IF depth < 0 THEN FALSE
            ELSE IF token = Br(")") /\ i > 0 /\ At(tokens, i - 1) = Br("(") THEN FALSE
            ELSE IF IsOperator(token)
                    /\ (\/ i = 0
                        \/ i = Len(tokens) - 1
                        \/ IsOperator(At(tokens, i - 1))
                        \/ At(tokens, i - 1) = Br("(")
                        \/ IsOperator(At(tokens, i + 1))
                        \/ At(tokens, i + 1) = Br(")"))
            THEN FALSE
            ELSE ValidateLoop(tokens, i + 1, depth)

\* validate_tokens(tokens) returns True (does not raise)
validate_tokens(tokens) == tokens # <<>> /\ ValidateLoop(tokens, 0, 0)

\* what tokenize can return: maximal runs of digits are one token, so no two
\* numeric literals are adjacent, and a literal carries a minus sign only as
\* the first token or after an operator or "("
tokenize_shape(tokens) ==
    \A i \in 1..Len(tokens) :
        IsNum(tokens[i]) =>
            /\ i > 1 => ~IsNum(tokens[i - 1])
            /\ tokens[i].n < 0 =>
                   (i = 1 \/ IsOperator(tokens[i - 1]) \/ tokens[i - 1] = Br("("))

\* the longest generated input, in tokens
MaxLen == 5

\* the literals and operators of the generated inputs
Literals == {0, 2}

InputOperators == {"+", "-", "*", "/"}

Alphabet == {Num(v) : v \in Literals} \cup {Op(o) : o \in InputOperators}
            \cup {Br("("), Br(")")}

Generated ==
    {t \in UNION {[1..len -> Alphabet] : len \in 1..MaxLen} :
        validate_tokens(t) /\ tokenize_shape(t)}

\* inputs longer than MaxLen or with other tokens: "2+3*4", "(2+3)*5",
\* "5*(2+3)", "2+3*2+3", "(2-3)/4", "(1+2)*(3+4)", "2^3^2", "0^-1",
\* "-8^0.5", "((2+3))*5", "(2+3)/(4)", "(2)+3*4"
Seeds ==
    {<<Num(2), Op("+"), Num(3), Op("*"), Num(4)>>,
     <<Br("("), Num(2), Op("+"), Num(3), Br(")"), Op("*"), Num(5)>>,
     <<Num(5), Op("*"), Br("("), Num(2), Op("+"), Num(3), Br(")")>>,
     <<Num(2), Op("+"), Num(3), Op("*"), Num(2), Op("+"), Num(3)>>,
     <<Br("("), Num(2), Op("-"), Num(3), Br(")"), Op("/"), Num(4)>>,
     <<Br("("), Num(1), Op("+"), Num(2), Br(")"), Op("*"),
       Br("("), Num(3), Op("+"), Num(4), Br(")")>>,
     <<Num(2), Op("^"), Num(3), Op("^"), Num(2)>>,
     <<Num(0), Op("^"), Num(-1)>>,
     <<Num(-8), Op("^"), Frac(1, 2)>>,
     <<Br("("), Br("("), Num(2), Op("+"), Num(3), Br(")"), Br(")"), Op("*"), Num(5)>>,
     <<Br("("), Num(2), Op("+"), Num(3), Br(")"), Op("/"), Br("("), Num(4), Br(")")>>,
     <<Br("("), Num(2), Br(")"), Op("+"), Num(3), Op("*"), Num(4)>>}

Inputs == Generated \cup Seeds

\* the largest node ceiling a caller passes; max_nodes = 0 stands for None
\* (and for 0, which the test `if self.max_nodes and ...` treats like None)
MaxLimit == 2

Limits == 0..MaxLimit

\* the model follows a build up to this many nodes
MaxNodes == 30

\* the uuid generator: its k-th draw in a run that started from seed
UuidSeeds == {1, 2}

uuid4(seed, k) == <<seed, k>>

NoneId == <<0, 0>>

NoneResult == [n |-> 0, d |-> 0]

\* Node with is_final = (len(tokens) == 0): no node is ever final
NodeNeverFinal(id, tokens, parent_id) ==
    [id |-> id, tokens |-> tokens, expression |-> Text(tokens),
     is_final |-> (Len(tokens) = 0),
     result |-> NoneResult,
     parent_id |-> parent_id]

\* Node(tokens, parent_id) with the id drawn for it; float(tokens[0]) is the
\* literal's value
Node(id, tokens, parent_id) ==
    [id |-> id, tokens |-> tokens, expression |-> Text(tokens),
     is_final |-> (Len(tokens) = 1),
     result |-> IF Len(tokens) = 1 THEN [n |-> tokens[1].n, d |-> tokens[1].d]
                ELSE NoneResult,
     parent_id |-> parent_id]

\* Node.__init__ raises ValueError: one token that float() cannot read
NodeRaises(tokens) == Len(tokens) = 1 /\ ~IsNum(tokens[1])

\* an Edge that ends where it starts
EdgeToItself(from_node_id, to_node_id, action_type, description) ==
    [from_node_id |-> from_node_id, to_node_id |-> from_node_id,
     action_type |-> action_type, description |-> description]

Edge(from_node_id, to_node_id, action_type, description) ==
    [from_node_id |-> from_node_id, to_node_id |-> to_node_id,
     action_type |-> action_type, description |-> description]

(***************************************************************************)
(* The state machine: one ExpressionGraph2 under construction, then one    *)
(* LearnerGraphWalker walking the same expression.                         *)
(***************************************************************************)
VARIABLES
    expression,        \* tokenize(self.expression)
    max_nodes,         \* self.max_nodes (0: None)
    uuid_seed,         \* the state of the uuid generator at the start
    drawn,             \* the number of ids drawn so far
    nodes,             \* self.nodes: id -> Node
    edges,             \* self.edges
    root_id,           \* self.root_id
    seen_expressions,  \* self.seen_expressions: expression text -> id
    queue,             \* the BFS queue of _build_graph
    truncated,         \* self.truncated
    pc,                \* where the program is
    self_learner,      \* the walker's learner ("None" before a walker exists)
    walk_tokens,       \* the local variable tokens of walk_deterministic
    steps,             \* the local variable steps of walk_deterministic
    max_depth,         \* the max_depth of get_all_learner_paths
    paths,             \* the list get_all_learner_paths returns
    argument,          \* the tokens a function is called with on its own
    returned           \* the tokens that call returned

vars == <<expression, max_nodes, uuid_seed, drawn, nodes, edges, root_id,
          seen_expressions, queue, truncated, pc, self_learner, walk_tokens, steps,
          max_depth, paths, argument, returned>>

graph_vars == <<expression, max_nodes, uuid_seed, drawn, nodes, edges, root_id,
                seen_expressions, queue, truncated>>

walker_vars == <<self_learner, walk_tokens, steps>>

explore_vars == <<max_depth, paths>>

call_vars == <<argument, returned>>

\* ExpressionGraph2.__init__ and _build_graph up to the while loop: the root
\* node is in the graph and in the queue
Init ==
    /\ expression \in Inputs
    /\ max_nodes \in Limits
    /\ uuid_seed \in UuidSeeds
    /\ drawn = 1
    /\ LET root == Node(uuid4(uuid_seed, 1), expression, NoneId)
       IN /\ nodes = (root.id :> root)
          /\ root_id = root.id
          /\ seen_expressions = (root.expression :> root.id)
          /\ queue = <<root>>
    /\ edges = <<>>
    /\ truncated = FALSE
    /\ pc = "build"
    /\ self_learner = "None"
    /\ walk_tokens = <<>>
    /\ steps = <<>>
    /\ max_depth = 0
    /\ paths = <<>>
    /\ argument = <<>>
    /\ returned = <<>>

\* the graph state one loop iteration works on
Graph(n, e, s, q, k) == [nodes |-> n, edges |-> e, seen_expressions |-> s, queue |-> q,
                         drawn |-> k]

\* Reach without the lookup in seen_expressions: every result gets a new node
ReachWithoutLookup(g, current_node, action_type, description, new_tokens) ==
    LET new_node == Node(uuid4(uuid_seed, g.drawn + 1), new_tokens, current_node.id)
    IN [nodes |-> (new_node.id :> new_node) @@ g.nodes,
        edges |-> Append(g.edges, Edge(current_node.id, new_node.id,
                                       action_type, description)),
        seen_expressions |-> (Text(new_tokens) :> new_node.id) @@ g.seen_expressions,
        queue |-> Append(g.queue, new_node),
        drawn |-> g.drawn + 1]

\* the body of the try blocks of _build_graph: record new_tokens as reached
\* from current_node by (action_type, description)
Reach(g, current_node, action_type, description, new_tokens) ==
    LET new_expr == Text(new_tokens)
    IN IF new_expr \in DOMAIN g.seen_expressions
       THEN [g EXCEPT !.edges = Append(@, Edge(current_node.id, g.seen_expressions[new_expr],
                                               action_type, description))]
       ELSE IF NodeRaises(new_tokens)
       THEN [g EXCEPT !.drawn = @ + 1]
       ELSE LET new_node == Node(uuid4(uuid_seed, g.drawn + 1), new_tokens, current_node.id)
            IN [nodes |-> (new_node.id :> new_node) @@ g.nodes,
                edges |-> Append(g.edges, Edge(current_node.id, new_node.id,
                                               action_type, description)),
                seen_expressions |-> (new_expr :> new_node.id) @@ g.seen_expressions,
                queue |-> Append(g.queue, new_node),
                drawn |-> g.drawn + 1]

\* for action in actions: try: ... except: pass
RECURSIVE ExpandLoop(_, _, _, _)
ExpandLoop(g, current_node, actions, i) ==
    IF i > Len(actions) THEN g
    ELSE ExpandLoop(Reach(g, current_node, actions[i].type, actions[i].description,
                          actions[i].result_tokens),
                    current_node, actions, i + 1)

\* the same-operator fast path applies and its try block does not raise
FastPath(current_node) ==
    LET same == is_same_operator_expression(current_node.tokens)
    IN /\ same[1]
       /\ compute_same_operator_result(current_node.tokens, same[2]).ok

SetGraph(g) ==
    /\ nodes' = g.nodes
    /\ edges' = g.edges
    /\ seen_expressions' = g.seen_expressions
    /\ queue' = g.queue
    /\ drawn' = g.drawn

\* the node limit is reached at the top of an iteration
Truncate ==
    /\ pc = "build"
    /\ queue # <<>>
    /\ max_nodes # 0 /\ Cardinality(DOMAIN nodes) >= max_nodes
    /\ truncated' = TRUE
    /\ pc' = "built"
    /\ UNCHANGED <<expression, max_nodes, uuid_seed, drawn, nodes, edges, root_id,
                   seen_expressions, queue>>
    /\ UNCHANGED <<walker_vars, explore_vars, call_vars>>

\* the iteration can run: the limit is not reached
CanIterate ==
    /\ pc = "build"
    /\ queue # <<>>
    /\ ~(max_nodes # 0 /\ Cardinality(DOMAIN nodes) >= max_nodes)
    /\ Cardinality(DOMAIN nodes) < MaxNodes

\* a final node is popped and not expanded
SkipFinal ==
    /\ CanIterate
    /\ Head(queue).is_final
    /\ queue' = Tail(queue)
    /\ UNCHANGED <<expression, max_nodes, uuid_seed, drawn, nodes, edges, root_id,
                   seen_expressions, truncated, pc>>
    /\ UNCHANGED <<walker_vars, explore_vars, call_vars>>

\* a same-operator expression is computed in one step
SameOperator ==
    /\ CanIterate
    /\ ~Head(queue).is_final
    /\ FastPath(Head(queue))
    /\ LET current_node == Head(queue)
           operator == is_same_operator_expression(current_node.tokens)[2]
           result == compute_same_operator_result(current_node.tokens, operator)
       IN SetGraph(Reach(Graph(nodes, edges, seen_expressions, Tail(queue), drawn),
                         current_node, "evaluate",
                         Describe("Compute all", <<>>, operator, <<>>),
                         <<result.token>>))
    /\ UNCHANGED <<expression, max_nodes, uuid_seed, root_id, truncated, pc>>
    /\ UNCHANGED <<walker_vars, explore_vars, call_vars>>

\* normal processing: every action of _find_all_actions is applied;
\* find_evaluatable_operations raising IndexError ends the build
Expand ==
    /\ CanIterate
    /\ ~Head(queue).is_final
    /\ ~FastPath(Head(queue))
    /\ LET current_node == Head(queue)
       IN IF EvaluatableRaises(current_node.tokens)
          THEN /\ pc' = "raised"
               /\ queue' = Tail(queue)
               /\ UNCHANGED <<drawn, nodes, edges, seen_expressions>>
          ELSE /\ pc' = pc
               /\ SetGraph(ExpandLoop(Graph(nodes, edges, seen_expressions, Tail(queue), drawn),
                                      current_node, find_all_actions(current_node.tokens), 1))
    /\ UNCHANGED <<expression, max_nodes, uuid_seed, root_id, truncated>>
    /\ UNCHANGED <<walker_vars, explore_vars, call_vars>>

\* the queue is empty: _build_graph and the constructor return
Finish ==
    /\ pc = "build"
    /\ queue = <<>>
    /\ pc' = "built"
    /\ UNCHANGED graph_vars
    /\ UNCHANGED <<walker_vars, explore_vars, call_vars>>

\* "None" where a step has no chosen action
NoneAction == Action("None", "None", 0, Describe("None", <<>>, "", <<>>))

\* one dict of the step list of walk_deterministic
Step(tokens, all_actions, valid, chosen_action, final, result) ==
    [state |-> Text(tokens), tokens |-> tokens, all_actions |-> all_actions,
     valid_actions |-> valid, chosen_action |-> chosen_action,
     is_final |-> final, result |-> result]

\* no step of the walker reads a node id: its operations are followed from the
\* graphs of one state of the id generator
FirstSeed == CHOOSE seed \in UuidSeeds : \A other \in UuidSeeds : seed <= other

\* LearnerGraphWalker(expression, learner): the constructor builds
\* ExpressionGraph2(expression) without a node limit; walk_deterministic
\* starts from tokenize(self.expression)
StartWalk ==
    /\ pc = "built"
    /\ max_nodes = 0
    /\ uuid_seed = FirstSeed
    /\ \E name \in LearnerNames : self_learner' = name
    /\ walk_tokens' = expression
    /\ steps' = <<>>
    /\ pc' = "walk"
    /\ UNCHANGED graph_vars
    /\ UNCHANGED <<explore_vars, call_vars>>

\* one iteration of the while loop that executes the chosen action and goes on
WalkStep ==
    /\ pc = "walk"
    /\ Len(walk_tokens) > 1
    /\ ~EvaluatableRaises(walk_tokens)
    /\ LET all_actions == extract_actions_from_tokens(walk_tokens)
           valid == valid_actions(Learner(self_learner), walk_tokens, all_actions)
       IN /\ all_actions # <<>>
          /\ valid # <<>>
          /\ execute_action(walk_tokens, valid[1]) # NoneTokens
          /\ steps' = Append(steps, Step(walk_tokens, all_actions, valid, valid[1],
                                         FALSE, NoneResult))
          /\ walk_tokens' = execute_action(walk_tokens, valid[1])
    /\ UNCHANGED <<pc, self_learner>>
    /\ UNCHANGED graph_vars
    /\ UNCHANGED <<explore_vars, call_vars>>

\* the loop ends with more than one token left: no action exists (break before
\* a step is recorded) or the learner is stuck (the step is recorded with
\* chosen_action None); the function returns steps
WalkStuck ==
    /\ pc = "walk"
    /\ Len(walk_tokens) > 1
    /\ ~EvaluatableRaises(walk_tokens)
    /\ LET all_actions == extract_actions_from_tokens(walk_tokens)
           valid == valid_actions(Learner(self_learner), walk_tokens, all_actions)
       IN \/ /\ all_actions = <<>>
             /\ steps' = steps
          \/ /\ all_actions # <<>>
             /\ valid = <<>>
             /\ steps' = Append(steps, Step(walk_tokens, all_actions, valid, NoneAction,
                                            FALSE, NoneResult))
    /\ pc' = "returned"
    /\ UNCHANGED <<self_learner, walk_tokens>>
    /\ UNCHANGED graph_vars
    /\ UNCHANGED <<explore_vars, call_vars>>

\* an exception leaves walk_deterministic: IndexError out of
\* extract_actions_from_tokens, or TypeError at len(tokens) after
\* _execute_action returned None
WalkRaise ==
    /\ pc = "walk"
    /\ Len(walk_tokens) > 1
    /\ IF EvaluatableRaises(walk_tokens)
       THEN UNCHANGED <<steps, walk_tokens>>
       ELSE LET all_actions == extract_actions_from_tokens(walk_tokens)
                valid == valid_actions(Learner(self_learner), walk_tokens, all_actions)
            IN /\ all_actions # <<>>
               /\ valid # <<>>
               /\ execute_action(walk_tokens, valid[1]) = NoneTokens
               /\ steps' = Append(steps, Step(walk_tokens, all_actions, valid, valid[1],
                                              FALSE, NoneResult))
               /\ walk_tokens' = NoneTokens
    /\ pc' = "walk_raised"
    /\ UNCHANGED self_learner
    /\ UNCHANGED graph_vars
    /\ UNCHANGED <<explore_vars, call_vars>>

\* one token is left: the final step is added and the function returns
\* (float(tokens[0]) raises on a token that is no number)
WalkFinal ==
    /\ pc = "walk"
    /\ Len(walk_tokens) = 1
    /\ IF IsNum(walk_tokens[1])
       THEN /\ steps' = Append(steps, Step(walk_tokens, <<>>, <<>>, NoneAction, TRUE,
                                           [n |-> walk_tokens[1].n, d |-> walk_tokens[1].d]))
            /\ pc' = "returned"
       ELSE /\ steps' = steps
            /\ pc' = "walk_raised"
    /\ UNCHANGED <<self_learner, walk_tokens>>
    /\ UNCHANGED graph_vars
    /\ UNCHANGED <<explore_vars, call_vars>>

\* the dicts get_all_learner_paths puts into a path, with the keys they have
final_step(tokens) ==
    [state |-> Text(tokens), tokens |-> tokens, is_final |-> TRUE,
     result |-> [n |-> tokens[1].n, d |-> tokens[1].d]]

stuck_step(tokens, all_actions) ==
    [state |-> Text(tokens), tokens |-> tokens, all_actions |-> all_actions,
     valid_actions |-> <<>>, stuck |-> TRUE]

\* the step dict with the last valid action in the place of the chosen one
step_with_last_action(tokens, all_actions, valid, action) ==
    [state |-> Text(tokens), tokens |-> tokens, all_actions |-> all_actions,
     valid_actions |-> valid, chosen_action |-> valid[Len(valid)]]

step(tokens, all_actions, valid, action) ==
    [state |-> Text(tokens), tokens |-> tokens, all_actions |-> all_actions,
     valid_actions |-> valid, chosen_action |-> action]

\* what a call of explore adds to paths, or that it raised
Added(new_paths) == [raised |-> FALSE, paths |-> new_paths]

ExploreRaised == [raised |-> TRUE, paths |-> <<>>]

\* the largest max_depth a caller passes
MaxDepth == 1

Depths == 0..MaxDepth

\* explore(tokens, current_path, depth) inside get_all_learner_paths(limit)
\* of a walker with this learner; ExploreLoop is its `for action in
\* valid_actions` from the i-th action on
RECURSIVE explore(_, _, _, _, _), ExploreLoop(_, _, _, _, _, _, _, _)
explore(learner, limit, tokens, current_path, depth) ==
    IF depth > limit THEN Added(<<current_path>>)
    ELSE IF Len(tokens) = 1
    THEN (IF IsNum(tokens[1]) THEN Added(<<Append(current_path, final_step(tokens))>>)
          ELSE ExploreRaised)
    ELSE IF EvaluatableRaises(tokens) THEN ExploreRaised
    ELSE LET all_actions == extract_actions_from_tokens(tokens)
             valid == valid_actions(learner, tokens, all_actions)
         IN IF all_actions = <<>> THEN Added(<<current_path>>)
            ELSE IF valid = <<>>
            THEN Added(<<Append(current_path, stuck_step(tokens, all_actions))>>)
            ELSE ExploreLoop(learner, limit, tokens, current_path, depth,
                             all_actions, valid, 1)

ExploreLoop(learner, limit, tokens, current_path, depth, all_actions, valid, i) ==
    IF i > Len(valid) THEN Added(<<>>)
    ELSE LET this == step(tokens, all_actions, valid, valid[i])
             new_tokens == execute_action(tokens, valid[i])
             first == IF new_tokens # NoneTokens /\ new_tokens # <<>>
                      THEN explore(learner, limit, new_tokens,
                                   Append(current_path, this), depth + 1)
                      ELSE Added(<<Append(current_path, this)>>)
         IN IF first.raised THEN ExploreRaised
            ELSE LET rest == ExploreLoop(learner, limit, tokens, current_path, depth,
                                         all_actions, valid, i + 1)
                 IN IF rest.raised THEN ExploreRaised
                    ELSE Added(first.paths \o rest.paths)

\* LearnerGraphWalker(expression, learner).get_all_learner_paths(max_depth):
\* the constructor builds the graph without a node limit, the call explores
\* from tokenize(self.expression)
GetAllLearnerPaths ==
    /\ pc = "built"
    /\ max_nodes = 0
    /\ uuid_seed = FirstSeed
    /\ \E name \in LearnerNames, limit \in Depths :
           LET all == explore(Learner(name), limit, expression, <<>>, 0)
           IN /\ self_learner' = name
              /\ max_depth' = limit
              /\ paths' = all.paths
              /\ pc' = IF all.raised THEN "explore_raised" ELSE "explored"
    /\ UNCHANGED <<walk_tokens, steps>>
    /\ UNCHANGED graph_vars
    /\ UNCHANGED call_vars

Next ==
    \/ Truncate
    \/ SkipFinal
    \/ SameOperator
    \/ Expand
    \/ Finish
    \/ StartWalk
    \/ WalkStep
    \/ WalkStuck
    \/ WalkRaise
    \/ WalkFinal
    \/ GetAllLearnerPaths

Spec == Init /\ [][Next]_vars

(***************************************************************************)
(* simplify_brackets called on its own, on any token list: it is a module   *)
(* level function of graph_builder2.py and takes lists that are no          *)
(* expression, with brackets of the three families.                        *)
(***************************************************************************)
\* the longest generated token list
MaxTokens == 4

AnyToken == {Num(2), Op("+")} \cup {Br(OPEN_BRACKETS[i]) : i \in 1..Len(OPEN_BRACKETS)}
            \cup {Br(CLOSE_BRACKETS[i]) : i \in 1..Len(CLOSE_BRACKETS)}

\* longer lists: "((2))", "{[(2)]}", "[(2)]+{3}", "((2)+(3))", "([2)]", "(2]+3"
NestedLists ==
    {<<Br("("), Br("("), Num(2), Br(")"), Br(")")>>,
     <<Br("{"), Br("["), Br("("), Num(2), Br(")"), Br("]"), Br("}")>>,
     <<Br("["), Br("("), Num(2), Br(")"), Br("]"), Op("+"), Br("{"), Num(3), Br("}")>>,
     <<Br("("), Br("("), Num(2), Br(")"), Op("+"), Br("("), Num(3), Br(")"), Br(")")>>,
     <<Br("("), Br("["), Num(2), Br(")"), Br("]")>>,
     <<Br("("), Num(2), Br("]"), Op("+"), Num(3)>>}

TokenLists == UNION {[1..len -> AnyToken] : len \in 0..MaxTokens} \cup NestedLists

CallInit ==
    /\ argument \in TokenLists
    /\ returned = <<>>
    /\ pc = "call"
    /\ expression = <<>>
    /\ max_nodes = 0
    /\ uuid_seed = 1
    /\ drawn = 0
    /\ nodes = <<>>
    /\ edges = <<>>
    /\ root_id = NoneId
    /\ seen_expressions = <<>>
    /\ queue = <<>>
    /\ truncated = FALSE
    /\ self_learner = "None"
    /\ walk_tokens = <<>>
    /\ steps = <<>>
    /\ max_depth = 0
    /\ paths = <<>>

\* simplify_brackets(tokens)
CallSimplify ==
    /\ pc = "call"
    /\ returned' = simplify_brackets(argument)
    /\ pc' = "simplified"
    /\ UNCHANGED <<argument, graph_vars, walker_vars, explore_vars>>

\* simplify_brackets(simplify_brackets(tokens))
CallSimplifyAgain ==
    /\ pc = "simplified"
    /\ returned' = simplify_brackets(returned)
    /\ pc' = "simplified_twice"
    /\ UNCHANGED <<argument, graph_vars, walker_vars, explore_vars>>

CallNext == CallSimplify \/ CallSimplifyAgain

CallSpec == CallInit /\ [][CallNext]_vars

(***************************************************************************)
(* The walker's methods that take the state as an argument:                *)
(* get_valid_actions_for_state(tokens) and _execute_action(tokens, action)  *)
(* read self.learner and their arguments only, and are followed on the     *)
(* tokens of any valid expression.                                         *)
(***************************************************************************)
AskInit ==
    /\ argument \in Inputs
    /\ self_learner \in LearnerNames
    /\ returned = <<>>
    /\ pc = "ask"
    /\ expression = <<>>
    /\ max_nodes = 0
    /\ uuid_seed = 1
    /\ drawn = 0
    /\ nodes = <<>>
    /\ edges = <<>>
    /\ root_id = NoneId
    /\ seen_expressions = <<>>
    /\ queue = <<>>
    /\ truncated = FALSE
    /\ walk_tokens = <<>>
    /\ steps = <<>>
    /\ max_depth = 0
    /\ paths = <<>>

\* get_valid_actions_for_state(tokens): all_actions and the learner's valid
\* subset are kept in one step record (IndexError out of
\* extract_actions_from_tokens leaves the method)
GetValidActionsForState ==
    /\ pc = "ask"
    /\ IF EvaluatableRaises(argument)
       THEN /\ pc' = "ask_raised"
            /\ steps' = steps
       ELSE LET all_actions == extract_actions_from_tokens(argument)
                valid == valid_actions(Learner(self_learner), argument, all_actions)
            IN /\ steps' = <<Step(argument, all_actions, valid, NoneAction,
                                  FALSE, NoneResult)>>
               /\ pc' = "asked"
    /\ UNCHANGED <<self_learner, walk_tokens>>
    /\ UNCHANGED <<graph_vars, explore_vars, call_vars>>

\* _execute_action(tokens, action) with one of the actions the state has; the
\* step record keeps the action, returned what the method returned
ExecuteAction ==
    /\ pc = "asked"
    /\ \E i \in 1..Len(steps[1].all_actions) :
           LET action == steps[1].all_actions[i]
           IN /\ steps' = <<Step(argument, steps[1].all_actions, steps[1].valid_actions,
                                 action, FALSE, NoneResult)>>
              /\ returned' = execute_action(argument, action)
    /\ pc' = "executed"
    /\ UNCHANGED <<argument, self_learner, walk_tokens>>
    /\ UNCHANGED <<graph_vars, explore_vars>>

AskNext == GetValidActionsForState \/ ExecuteAction

AskSpec == AskInit /\ [][AskNext]_vars

(***************************************************************************)
(* Properties                                                              *)
(***************************************************************************)
\* the edges leaving node id, in the order they were appended
EdgesFrom(id) == SelectSeq(edges, LAMBDA e : e.from_node_id = id)

InQueue(id) == \E i \in 1..Len(queue) : queue[i].id = id

\* a node the builder has popped and processed
Expanded(id) == ~nodes[id].is_final /\ ~InQueue(id)

\* what processing a node with these tokens records, in order: the fast path's
\* single result, or the results of the actions of _find_all_actions
Outcomes(tokens) ==
    LET same == is_same_operator_expression(tokens)
        all == compute_same_operator_result(tokens, same[2])
    IN IF same[1] /\ all.ok
       THEN <<GraphAction("evaluate", Describe("Compute all", <<>>, same[2], <<>>),
                          <<all.token>>)>>
       ELSE find_all_actions(tokens)

\* C1: no two nodes of the graph have the same canonical expression text, and
\* every rewrite result recorded for a processed node is recorded as an edge to
\* the one node that has the result's text, so that two action sequences whose
\* results have identical text lead to the same node id.
C1_Dedup ==
    /\ \A a, b \in DOMAIN nodes : nodes[a].expression = nodes[b].expression => a = b
    /\ \A id \in DOMAIN nodes : seen_expressions[nodes[id].expression] = id
    /\ \A id \in DOMAIN nodes :
           Expanded(id) =>
               LET out == Outcomes(nodes[id].tokens)
                   from == EdgesFrom(id)
               IN /\ Len(from) = Len(out)
                  /\ \A k \in 1..Len(out) :
                         /\ from[k].to_node_id \in DOMAIN nodes
                         /\ nodes[from[k].to_node_id].expression = Text(out[k].result_tokens)

\* a finished, complete graph in which two different nodes have an edge to the
\* same node
C1_Witness ==
    /\ pc = "built" /\ ~truncated
    /\ \E i, j \in 1..Len(edges) :
           /\ edges[i].from_node_id # edges[j].from_node_id
           /\ edges[i].to_node_id = edges[j].to_node_id

\* C2: a graph built with node ceiling N >= 1 has at most N nodes, and it is
\* flagged truncated whenever the build stopped with a state left unexplored.
C2_NodeCeiling ==
    (pc = "built" /\ max_nodes >= 1) =>
        /\ Cardinality(DOMAIN nodes) <= max_nodes
        /\ queue # <<>> => truncated

\* C5: a node of one token is final, its result is the value of that token and
\* no edge leaves it; a node of more than one token is not final and has no
\* result.
C5_Terminal ==
    \A id \in DOMAIN nodes :
        LET node == nodes[id]
        IN IF Len(node.tokens) = 1
           THEN /\ node.is_final
                /\ node.result = [n |-> node.tokens[1].n, d |-> node.tokens[1].d]
                /\ EdgesFrom(id) = <<>>
           ELSE /\ ~node.is_final
                /\ node.result = NoneResult

\* a finished graph with a final node that an edge reaches and that was popped
\* from the queue, next to a node that is not final
C5_Witness ==
    /\ pc = "built" /\ queue = <<>>
    /\ \E i \in 1..Len(edges) :
           /\ nodes[edges[i].to_node_id].is_final
           /\ ~nodes[edges[i].from_node_id].is_final

\* every candidate action of a processed node whose application succeeds has
\* its edge, whatever happened to the other candidates of that node
C3_FailureIsLocal ==
    \A id \in DOMAIN nodes :
        (Expanded(id) /\ ~FastPath(nodes[id])) =>
            LET t == nodes[id].tokens
                from == EdgesFrom(id)
                Recorded(type, result) ==
                    \E k \in 1..Len(from) :
                        nodes[from[k].to_node_id].expression = Text(result)
                operations == find_evaluatable_operations(t)
                groups == find_bracket_groups(t)
                distributable == find_distributable_brackets(t)
            IN /\ \A k \in 1..Len(operations) :
                      LET r == perform_operation(t, operations[k][1], operations[k][2])
                      IN r.ok => Recorded("evaluate", r.tokens)
               /\ \A k \in 1..Len(groups) :
                      Recorded("drop_brackets",
                               simplify_brackets(drop_brackets(t, groups[k][1], groups[k][2])))
               /\ \A k \in 1..Len(distributable) :
                      LET d == distributable[k]
                          r == distribute_bracket(t, d.bracket_start, d.bracket_end,
                                                  d.op_side, d.op_index, d.operand)
                      IN r # NoneTokens => Recorded("distribute", simplify_brackets(r))

\* the while loop of _build_graph can take its next step: the queue is empty
\* (the loop ends), the node limit is reached (break), or an iteration runs; the
\* model follows a build as long as the graph has fewer than MaxNodes nodes
BuildCanStep ==
    \/ queue = <<>>
    \/ max_nodes # 0 /\ Cardinality(DOMAIN nodes) >= max_nodes
    \/ Cardinality(DOMAIN nodes) < MaxNodes

\* C3: for every valid input the construction terminates without raising, with
\* or without a node ceiling (a build that is not over has a next step within
\* the nodes the model follows, and no step raises), and a candidate action
\* that fails is the only thing omitted from the graph.
C3_Construction ==
    /\ pc # "raised"
    /\ pc = "build" => BuildCanStep
    /\ C3_FailureIsLocal

\* the operator at index i is a division whose right operand is the number 0
DivisionByZeroAt(tokens, i) ==
    /\ At(tokens, i) = Op("/")
    /\ IsNum(At(tokens, i + 1)) /\ At(tokens, i + 1).n = 0

\* C4: no available-action set holds an evaluate action of / with right operand
\* 0: not the set _find_all_actions computes for a node of the graph, and not
\* the set extract_actions_from_tokens gives the walker and the learner.
C4_NoDivisionByZero ==
    /\ \A id \in DOMAIN nodes :
           LET t == nodes[id].tokens
               actions == find_all_actions(t)
           IN \A k \in 1..Len(actions) :
                  actions[k].type = "evaluate" =>
                      ~\E i \in 1..(Len(t) - 2) :
                          /\ DivisionByZeroAt(t, i)
                          /\ actions[k].description =
                                 Describe("Compute", TokText(At(t, i - 1)), "/",
                                          TokText(At(t, i + 1)))
    /\ \A k \in 1..Len(steps) :
           \A a \in 1..Len(steps[k].all_actions) :
               LET action == steps[k].all_actions[a]
               IN ~(/\ action.action_type = "evaluate"
                    /\ DivisionByZeroAt(steps[k].tokens, action.operator_index))

\* C6: a recorded action identifies one successor: two edges that leave one
\* node with the same kind and description enter the same node, and every
\* walker step's chosen_action, applied again to the step's state, gives the
\* next step's state.
C6_Replayable ==
    /\ \A i, j \in 1..Len(edges) :
           (/\ edges[i].from_node_id = edges[j].from_node_id
            /\ edges[i].action_type = edges[j].action_type
            /\ edges[i].description = edges[j].description)
           => edges[i].to_node_id = edges[j].to_node_id
    /\ \A k \in 1..(Len(steps) - 1) :
           /\ steps[k].chosen_action # NoneAction
           /\ steps[k + 1].tokens = execute_action(steps[k].tokens, steps[k].chosen_action)

\* C7: walk_deterministic never ends in an exception; it returns when one token
\* is left (final step), when no action exists, or when the learner is stuck,
\* and then the last step carries chosen_action None.
C7_WalkReturns ==
    /\ pc # "walk_raised"
    /\ pc = "returned" =>
           \/ /\ Len(walk_tokens) = 1
              /\ steps # <<>> /\ steps[Len(steps)].is_final
           \/ /\ Len(walk_tokens) > 1
              /\ extract_actions_from_tokens(walk_tokens) = <<>>
           \/ /\ Len(walk_tokens) > 1
              /\ steps # <<>>
              /\ steps[Len(steps)].tokens = walk_tokens
              /\ steps[Len(steps)].valid_actions = <<>>
              /\ steps[Len(steps)].chosen_action = NoneAction


\* every policy attached to the learner answers True for the action, asked
\* with the learner's precedence map and the whole list of available actions
EveryPolicyAccepts(learner, state, action, available_actions) ==
    \A i \in 1..Len(learner.policies) :
        POLICY_REGISTRY(learner.policies[i], state, action, available_actions,
                        learner.precedence_map)

\* C8: an action is valid for a learner iff every attached policy accepts it,
\* valid_actions is the sub-list of the valid available actions in their
\* order, and for novice it is the whole list (at every recorded walk step).
C8_ValidityIsConjunction ==
    \A k \in 1..Len(steps) :
        LET s == steps[k]
            learner == Learner(self_learner)
        IN ~s.is_final =>
               /\ \A j \in 1..Len(s.all_actions) :
                      is_valid(learner, s.tokens, s.all_actions[j], s.all_actions)
                          <=> EveryPolicyAccepts(learner, s.tokens, s.all_actions[j],
                                                 s.all_actions)
               /\ s.valid_actions =
                      SelectSeq(s.all_actions,
                                LAMBDA a : EveryPolicyAccepts(learner, s.tokens, a,
                                                              s.all_actions))
               /\ self_learner = "novice" => s.valid_actions = s.all_actions

\* a recorded step where the policies of the learner disagree on an action and
\* the valid actions are a proper, non-empty part of the available ones
C8_Witness ==
    \E k \in 1..Len(steps) :
        LET s == steps[k]
            learner == Learner(self_learner)
        IN /\ ~s.is_final
           /\ s.valid_actions # <<>>
           /\ s.valid_actions # s.all_actions
           /\ \E j \in 1..Len(s.all_actions) : \E p, q \in 1..Len(learner.policies) :
                  /\ POLICY_REGISTRY(learner.policies[p], s.tokens, s.all_actions[j],
                                     s.all_actions, learner.precedence_map)
                  /\ ~POLICY_REGISTRY(learner.policies[q], s.tokens, s.all_actions[j],
                                      s.all_actions, learner.precedence_map)

\* the walk of the constructed walker is under way or over
Walking == pc \in {"walk", "returned", "walk_raised"}

\* the rank a learner gives an operator
Rank(name, operator) == PrecGet(PrecOr(Learner(name).precedence_map), operator)

\* the walk of learner `name` on "2+3*4" offers exactly the evaluate action of
\* `operator` at token index `index` first, goes through `second` and returns
\* with the final value `value`
WalkOf234(name, operator, index, second, value) ==
    self_learner = name =>
        /\ pc # "walk_raised"
        /\ Len(steps) >= 1 =>
               /\ Len(steps[1].valid_actions) = 1
               /\ steps[1].valid_actions[1].action_type = "evaluate"
               /\ steps[1].valid_actions[1].operator = operator
               /\ steps[1].valid_actions[1].operator_index = index
        /\ pc = "walk" =>
               /\ Len(steps) <= 2
               /\ Len(steps) = 1 => Text(walk_tokens) = second
               /\ Len(steps) = 2 => Text(walk_tokens) = Text(<<Num(value)>>)
        /\ pc = "returned" =>
               /\ Len(steps) = 3
               /\ steps[3].is_final
               /\ steps[3].result = [n |-> value, d |-> 1]

\* C9: on "2+3*4" every valid action is the evaluate action of an operator the
\* learner's precedence map ranks highest, and it is the only one when the map
\* ranks + and * apart; expert has exactly the * action and its walk returns
\* 14, addition_first has exactly the + action and its walk returns 20.
C9_PrecedenceDecides ==
    (Walking /\ Text(expression) = <<"2", "+", "3", "*", "4">>) =>
        /\ Len(steps) >= 1 =>
               LET valid == steps[1].valid_actions
               IN /\ \A j \in 1..Len(valid) :
                         /\ valid[j].action_type = "evaluate"
                         /\ valid[j].operator \in {"+", "*"}
                         /\ Rank(self_learner, valid[j].operator) >= Rank(self_learner, "+")
                         /\ Rank(self_learner, valid[j].operator) >= Rank(self_learner, "*")
                  /\ Rank(self_learner, "+") # Rank(self_learner, "*") => Len(valid) = 1
        /\ WalkOf234("expert", "*", 3, <<"2", "+", "1", "2">>, 14)
        /\ WalkOf234("addition_first", "+", 1, <<"5", "*", "4">>, 20)

\* the walk of expert on "2+3*4" has returned 14
C9_Witness ==
    /\ pc = "returned"
    /\ Text(expression) = <<"2", "+", "3", "*", "4">>
    /\ self_learner = "expert"
    /\ Len(steps) = 3
    /\ steps[3].result = [n |-> 14, d |-> 1]

\* the concatenation of a sequence of token sequences
RECURSIVE Concat(_)
Concat(seqs) == IF seqs = <<>> THEN <<>> ELSE Head(seqs) \o Concat(Tail(seqs))

\* a term as it stands in a distributed group: in fresh round brackets unless
\* it is one plain token
Grouped(term) ==
    IF Len(term) = 1 /\ ~IsOpen(term[1]) THEN term
    ELSE <<Br("(")>> \o term \o <<Br(")")>>

\* what the distribution d of find_distributable_brackets(tokens) is to give:
\* bracket, operator and operand are replaced by one round-bracket group of the
\* terms in order, each combined with the operand, joined by their signs
Distributed(tokens, d) ==
    LET terms == parse_bracket_terms(Slice(tokens, d.bracket_start + 1, d.bracket_end))
        combined(i) == IF d.op_side = "right"
                       THEN Grouped(terms[i][2]) \o <<d.operator>> \o d.operand
                       ELSE d.operand \o <<d.operator>> \o Grouped(terms[i][2])
        group == <<Br("(")>>
                 \o Concat([i \in 1..Len(terms) |->
                               (IF i > 1 THEN <<Op(terms[i][1])>> ELSE <<>>) \o combined(i)])
                 \o <<Br(")")>>
        first == IF d.op_side = "right" THEN d.bracket_start
                 ELSE d.op_index - Len(d.operand)
        last == IF d.op_side = "right" THEN d.op_index + Len(d.operand)
                ELSE d.bracket_end
    IN Slice(tokens, 0, first) \o group \o Slice(tokens, last + 1, Len(tokens))

\* the brackets of tokens that distribute_bracket rewrites: two terms or more
Distributions(tokens) ==
    LET dists == find_distributable_brackets(tokens)
    IN {i \in 1..Len(dists) :
           Len(parse_bracket_terms(Slice(tokens, dists[i].bracket_start + 1,
                                         dists[i].bracket_end))) >= 2}

DistributesAsStated(tokens) ==
    LET dists == find_distributable_brackets(tokens)
    IN \A i \in Distributions(tokens) :
           distribute_bracket(tokens, dists[i].bracket_start, dists[i].bracket_end,
                              dists[i].op_side, dists[i].op_index, dists[i].operand)
               = Distributed(tokens, dists[i])

\* the value of an expression of numbers, + - * / and brackets under the usual
\* precedence, as [v |-> value, i |-> index after the part read]; d = 0 marks
\* a division by zero
RECURSIVE ValueOfSum(_, _), SumLoop(_, _, _), ValueOfProduct(_, _),
          ProductLoop(_, _, _), ValueOfFactor(_, _)
ValueOfFactor(tokens, i) ==
    IF IsOpen(tokens[i])
    THEN LET e == ValueOfSum(tokens, i + 1) IN [v |-> e.v, i |-> e.i + 1]
    ELSE [v |-> [n |-> tokens[i].n, d |-> tokens[i].d], i |-> i + 1]

ProductLoop(tokens, acc, i) ==
    IF i <= Len(tokens) /\ tokens[i].k = "op" /\ tokens[i].s \in {"*", "/"}
    THEN LET f == ValueOfFactor(tokens, i + 1)
             r == IF acc.d = 0 \/ f.v.d = 0 \/ (tokens[i].s = "/" /\ f.v.n = 0)
                  THEN [n |-> 0, d |-> 0]
                  ELSE IF tokens[i].s = "*"
                  THEN Norm(acc.n * f.v.n, acc.d * f.v.d)
                  ELSE Norm(acc.n * f.v.d, acc.d * f.v.n)
         IN ProductLoop(tokens, [n |-> r.n, d |-> r.d], f.i)
    ELSE [v |-> acc, i |-> i]

ValueOfProduct(tokens, i) ==
    LET f == ValueOfFactor(tokens, i) IN ProductLoop(tokens, f.v, f.i)

SumLoop(tokens, acc, i) ==
    IF i <= Len(tokens) /\ tokens[i].k = "op" /\ tokens[i].s \in {"+", "-"}
    THEN LET t == ValueOfProduct(tokens, i + 1)
             r == IF acc.d = 0 \/ t.v.d = 0 THEN [n |-> 0, d |-> 0]
                  ELSE IF tokens[i].s = "+"
                  THEN Norm(acc.n * t.v.d + t.v.n * acc.d, acc.d * t.v.d)
                  ELSE Norm(acc.n * t.v.d - t.v.n * acc.d, acc.d * t.v.d)
         IN SumLoop(tokens, [n |-> r.n, d |-> r.d], t.i)
    ELSE [v |-> acc, i |-> i]

ValueOfSum(tokens, i) ==
    LET t == ValueOfProduct(tokens, i) IN SumLoop(tokens, t.v, t.i)

ConventionalValue(tokens) == ValueOfSum(tokens, 1).v

\* C10: distribute_bracket on a bracket of two or more terms next to operator
\* OP with operand X replaces bracket, operator and operand by one bracketed
\* group of the terms in order, joined by their signs, each combined with X by
\* OP on the side of the operator (for every node of the graph and every state
\* of a walk); on "(2+3)*5" the result reads "(2*5+3*5)", and both are 25.
C10_Distribution ==
    /\ \A id \in DOMAIN nodes : DistributesAsStated(nodes[id].tokens)
    /\ Walking /\ walk_tokens # NoneTokens => DistributesAsStated(walk_tokens)
    /\ Text(expression) = <<"(", "2", "+", "3", ")", "*", "5">> =>
           LET dists == find_distributable_brackets(expression)
               result == distribute_bracket(expression, 0, 4, "right", 5, <<Num(5)>>)
           IN /\ Len(dists) = 1
              /\ dists[1] = Dist(0, 4, "right", 5, Op("*"), <<Num(5)>>)
              /\ Text(result) = <<"(", "2", "*", "5", "+", "3", "*", "5", ")">>
              /\ ConventionalValue(expression) = [n |-> 25, d |-> 1]
              /\ ConventionalValue(result) = [n |-> 25, d |-> 1]

\* the graph of "(2+3)*5" has the distribute edge from the root to the node
\* "(2*5+3*5)"
C10_Witness ==
    /\ Text(expression) = <<"(", "2", "+", "3", ")", "*", "5">>
    /\ \E k \in 1..Len(edges) :
           /\ edges[k].from_node_id = root_id
           /\ edges[k].action_type = "distribute"
           /\ nodes[edges[k].to_node_id].expression
                  = <<"(", "2", "*", "5", "+", "3", "*", "5", ")">>

\* tokens without the two tokens at the 0-based positions start < end
WithoutPair(tokens, start, end) ==
    [i \in 1..(Len(tokens) - 2) |->
        IF i <= start THEN tokens[i]
        ELSE IF i <= end - 1 THEN tokens[i + 1]
        ELSE tokens[i + 2]]

DropsAsStated(tokens) ==
    LET groups == find_bracket_groups(tokens)
    IN \A g \in 1..Len(groups) :
           LET result == drop_brackets(tokens, groups[g][1], groups[g][2])
           IN /\ Len(result) = Len(tokens) - 2
              /\ result = WithoutPair(tokens, groups[g][1], groups[g][2])

\* C11: drop_brackets removes exactly the bracket tokens at start and end and
\* keeps every other token in its order, two tokens shorter (for every bracket
\* group of every node and of every state of a walk); on "(2+3)*5" it gives
\* "2+3*5", whose value under the usual precedence is 17.
C11_DropBrackets ==
    /\ \A id \in DOMAIN nodes : DropsAsStated(nodes[id].tokens)
    /\ Walking /\ walk_tokens # NoneTokens => DropsAsStated(walk_tokens)
    /\ Text(expression) = <<"(", "2", "+", "3", ")", "*", "5">> =>
           LET result == drop_brackets(expression, 0, 4)
           IN /\ find_bracket_groups(expression) = << <<0, 4>> >>
              /\ Text(result) = <<"2", "+", "3", "*", "5">>
              /\ ConventionalValue(result) = [n |-> 17, d |-> 1]

\* the graph of "(2+3)*5" has the drop_brackets edge from the root to the
\* node "2+3*5"
C11_Witness ==
    /\ Text(expression) = <<"(", "2", "+", "3", ")", "*", "5">>
    /\ \E k \in 1..Len(edges) :
           /\ edges[k].from_node_id = root_id
           /\ edges[k].action_type = "drop_brackets"
           /\ nodes[edges[k].to_node_id].expression = <<"2", "+", "3", "*", "5">>

\* a bracket pair of one family around one operand token, at 0-based index i
SingleOperandPair(tokens, i) ==
    /\ i + 2 < Len(tokens)
    /\ IsOpen(At(tokens, i))
    /\ IsNum(At(tokens, i + 1))
    /\ At(tokens, i + 2) = Br(BRACKET_PAIRS(At(tokens, i).s))

\* C12: simplify_brackets is idempotent, and its output holds no bracket pair
\* of one family whose only content is one operand token, however deep such
\* pairs were nested in the input.
C12_SimplifyFixedPoint ==
    /\ pc \in {"simplified", "simplified_twice"} =>
           \A i \in 0..(Len(returned) - 1) : ~SingleOperandPair(returned, i)
    /\ pc = "simplified_twice" => returned = simplify_brackets(argument)

\* "{[(2)]}" was simplified to "2", and simplified again
C12_Witness ==
    /\ pc = "simplified_twice"
    /\ argument = <<Br("{"), Br("["), Br("("), Num(2), Br(")"), Br("]"), Br("}")>>
    /\ returned = <<Num(2)>>

\* the id a build that started the uuid generator in state seed gives to the
\* node this build created with its k-th draw (the order in which a build
\* creates the nodes of one input is the same in every build)
IdInBuild(seed, id) == uuid4(seed, id[2])

\* C13: node ids are unique and determined by the canonical expression text:
\* in one build no node overwrites another (every id drawn keys its own node
\* and no two nodes share an expression), and every build of the same input
\* gives the node of an expression the same id.
C13_IdsFromText ==
    /\ Cardinality(DOMAIN nodes) = drawn
    /\ \A id \in DOMAIN nodes : nodes[id].id = id
    /\ \A a, b \in DOMAIN nodes : nodes[a].expression = nodes[b].expression => a = b
    /\ \A id \in DOMAIN nodes : \A seed \in UuidSeeds : IdInBuild(seed, id) = id

\* the nodes of S left after taking away, again and again, every node without
\* an edge to a node that is left: empty iff no path of edges returns to its
\* start
RECURSIVE OnCycles(_)
OnCycles(S) ==
    LET sinks == {a \in S : \A k \in 1..Len(edges) :
                               edges[k].from_node_id = a => edges[k].to_node_id \notin S}
    IN IF sinks = {} THEN S ELSE OnCycles(S \ sinks)

OrdinaryKeys == {"state", "tokens", "all_actions", "valid_actions", "chosen_action"}

\* the path was handed back because depth exceeded max_depth: it has
\* max_depth + 1 steps, each with a chosen action, and the action of the last
\* one can be executed
CutByDepth(path) ==
    /\ Len(path) = max_depth + 1
    /\ \A k \in 1..Len(path) : DOMAIN path[k] = OrdinaryKeys
    /\ LET last == path[Len(path)]
           new_tokens == execute_action(last.tokens, last.chosen_action)
       IN new_tokens # NoneTokens /\ new_tokens # <<>>

\* C15: a path that get_all_learner_paths cut because depth exceeded max_depth
\* carries an explicit marker: some step of it has a key beyond those of a
\* step that goes on, as the final step has is_final and the stuck step has
\* stuck.
C15_DepthCutMarked ==
    pc = "explored" =>
        \A j \in 1..Len(paths) :
            CutByDepth(paths[j]) =>
                \E k \in 1..Len(paths[j]) : DOMAIN paths[j][k] \ OrdinaryKeys # {}

\* C16: truncated is set only if the construction stopped while a node that
\* is not final was still waiting to be expanded; a build whose queue holds
\* only final nodes, or nothing, is not reported as truncated.
C16_TruncatedIsIncomplete ==
    truncated => \E i \in 1..Len(queue) : ~queue[i].is_final

\* an expression of integer operands, + - * and brackets
PlainExpression(tokens) ==
    \A i \in 1..Len(tokens) :
        /\ tokens[i].k = "op" => tokens[i].s \in {"+", "-", "*"}
        /\ tokens[i].k = "num" => tokens[i].d = 1 /\ tokens[i].s = ""

\* C17: for every valid expression of integer operands, + - * and brackets
\* the deterministic walk of expert raises nothing, does not get stuck, and
\* ends in a final step whose result is the value of the expression under the
\* usual precedence.
C17_ExpertIsCorrect ==
    (Walking /\ self_learner = "expert" /\ PlainExpression(expression)) =>
        /\ pc # "walk_raised"
        /\ \A k \in 1..Len(steps) : ~steps[k].is_final => steps[k].valid_actions # <<>>
        /\ pc = "returned" =>
               /\ steps # <<>>
               /\ steps[Len(steps)].is_final
               /\ steps[Len(steps)].result = ConventionalValue(expression)

\* a bracket-free sequence with exactly one distinct operator and no division
\* by zero in it
OneOperatorChain(tokens) ==
    /\ Len(tokens) > 1
    /\ \A i \in 1..Len(tokens) : tokens[i].k # "br"
    /\ Cardinality({tokens[i].s : i \in {j \in 1..Len(tokens) : tokens[j].k = "op"}}) = 1
    /\ \A i \in 1..(Len(tokens) - 1) :
           ~(tokens[i] = Op("/") /\ IsNum(tokens[i + 1]) /\ tokens[i + 1].n = 0)

\* the leftmost evaluate action applied again and again
RECURSIVE LeftToRight(_)
LeftToRight(tokens) ==
    IF Len(tokens) < 3 THEN tokens
    ELSE LET r == perform_operation(tokens, 1, tokens[2].s)
         IN IF r.ok THEN LeftToRight(r.tokens) ELSE NoneTokens

\* C18: every node that was expanded and is a bracket-free chain of one
\* distinct operator without a zero divisor has exactly one outgoing edge, of
\* kind evaluate, to a final node whose expression is what strict
\* left-to-right evaluation of the chain gives, for - / ^ as for + and *.
C18_SameOperatorFastPath ==
    \A id \in DOMAIN nodes :
        (Expanded(id) /\ OneOperatorChain(nodes[id].tokens)) =>
            LET out == EdgesFrom(id)
            IN /\ Len(out) = 1
               /\ out[1].action_type = "evaluate"
               /\ nodes[out[1].to_node_id].is_final
               /\ nodes[out[1].to_node_id].expression = Text(LeftToRight(nodes[id].tokens))

\* the number of brackets open before position i of a bracket's interior
NestingAt(inner, i) ==
    Cardinality({j \in 1..(i - 1) : IsOpen(inner[j])})
    - Cardinality({j \in 1..(i - 1) : IsClose(inner[j])})

\* the bracket tokens[start..end] has at least two top-level terms: a + or -
\* of its interior lies outside every nested bracket
TwoTopLevelTerms(tokens, start, end) ==
    LET inner == get_bracket_content(tokens, start, end)
    IN \E i \in 2..Len(inner) :
           /\ inner[i].k = "op" /\ inner[i].s \in {"+", "-"}
           /\ NestingAt(inner, i) = 0

\* the brackets for which the builder lists a distribute action
BuilderOffers(tokens) ==
    LET distributable == find_distributable_brackets(tokens)
    IN {distributable[i] : i \in {j \in 1..Len(distributable) :
           distribute_bracket(tokens, distributable[j].bracket_start,
                              distributable[j].bracket_end, distributable[j].op_side,
                              distributable[j].op_index, distributable[j].operand)
               # NoneTokens}}

\* the brackets next to the operator of a distribute action of the walker
BracketsOf(tokens, action) ==
    LET distributable == find_distributable_brackets(tokens)
    IN {distributable[i] : i \in {j \in 1..Len(distributable) :
           distributable[j].op_index = action.operator_index}}

\* C19: a distribute action is listed only for a bracket with at least two
\* top-level terms, by the builder (for the tokens of every node) and by the
\* walker (in the all_actions of every recorded step), and every distribute
\* action the walker lists can be executed.
C19_DistributeOffered ==
    /\ \A id \in DOMAIN nodes : \A dist \in BuilderOffers(nodes[id].tokens) :
           TwoTopLevelTerms(nodes[id].tokens, dist.bracket_start, dist.bracket_end)
    /\ \A k \in 1..Len(steps) : \A j \in 1..Len(steps[k].all_actions) :
           LET action == steps[k].all_actions[j]
           IN action.action_type = "distribute" =>
                  /\ \E dist \in BracketsOf(steps[k].tokens, action) :
                         TwoTopLevelTerms(steps[k].tokens, dist.bracket_start,
                                          dist.bracket_end)
                  /\ execute_action(steps[k].tokens, action) # NoneTokens

\* the brackets of tokens with at least two top-level terms that are
\* immediately followed by "/": the dividends
Dividends(tokens) ==
    LET groups == find_bracket_groups(tokens)
    IN {groups[g] : g \in {h \in 1..Len(groups) :
           /\ TwoTopLevelTerms(tokens, groups[h][1], groups[h][2])
           /\ groups[h][2] + 1 < Len(tokens)
           /\ At(tokens, groups[h][2] + 1) = Op("/")}}

\* the distribute actions the walker lists for tokens
WalkerDistributes(tokens) ==
    LET all_actions == extract_actions_from_tokens(tokens)
    IN {all_actions[i] : i \in {j \in 1..Len(all_actions) :
           all_actions[j].action_type = "distribute"}}

\* C20: for the tokens of every node, every bracket with at least two
\* top-level terms that is immediately followed by "/" yields a distribute
\* action, in the builder and in the walker, whether the divisor is a single
\* operand or a bracket group; and no bracket yields a distribute action for
\* a "/" that immediately precedes it.
C20_DividendOnly ==
    \A id \in DOMAIN nodes :
        LET tokens == nodes[id].tokens
            distributable == find_distributable_brackets(tokens)
        IN /\ \A group \in Dividends(tokens) :
                  /\ \E dist \in BuilderOffers(tokens) :
                         /\ dist.bracket_start = group[1]
                         /\ dist.op_side = "right"
                  /\ \E action \in WalkerDistributes(tokens) :
                         action.operator_index = group[2] + 1
           /\ \A i \in 1..Len(distributable) :
                  ~(distributable[i].op_side = "left" /\ distributable[i].operator = Op("/"))

\* the last step of the path is the final step of a state of one token
EndsFinal(path) ==
    /\ path # <<>>
    /\ {"is_final", "result"} \subseteq DOMAIN path[Len(path)]
    /\ path[Len(path)].is_final

\* the last step of the path is the stuck step of a state without valid action
EndsStuck(path) ==
    /\ path # <<>>
    /\ "stuck" \in DOMAIN path[Len(path)]
    /\ path[Len(path)].stuck
    /\ path[Len(path)].valid_actions = <<>>

\* C21: every path get_all_learner_paths returns is complete in one of three
\* ways: it ends with a final step, it ends with a stuck step, or it was cut
\* because depth exceeded max_depth; no path ends otherwise.
C21_ThreeKindsOfPath ==
    pc = "explored" =>
        \A j \in 1..Len(paths) :
            EndsFinal(paths[j]) \/ EndsStuck(paths[j]) \/ CutByDepth(paths[j])

\* the learner profiles that attach highest_precedence_first and the
\* direction policy `direction`
LearnersWith(direction) ==
    {name \in LearnerNames :
        \E p, q \in 1..Len(Learner(name).policies) :
            /\ Learner(name).policies[p] = "highest_precedence_first"
            /\ Learner(name).policies[q] = direction}

\* the action passes highest_precedence_first and the direction policy for
\* learner `name` in the state of step s
PassesBoth(name, direction, s, action) ==
    /\ POLICY_REGISTRY("highest_precedence_first", s.tokens, action, s.all_actions,
                       Learner(name).precedence_map)
    /\ POLICY_REGISTRY(direction, s.tokens, action, s.all_actions,
                       Learner(name).precedence_map)

\* the positions in all_actions of the evaluate actions of top rank for `name`
TopRanked(name, all_actions) ==
    {j \in 1..Len(all_actions) :
        /\ all_actions[j].action_type = "evaluate"
        /\ \A i \in 1..Len(all_actions) :
               all_actions[i].action_type = "evaluate" =>
                   Rank(name, all_actions[i].operator) <= Rank(name, all_actions[j].operator)}

\* in the state of step s exactly the expected evaluate action passes both
\* policies, and every other kind of action passes them
OnePasses(name, direction, s) ==
    LET top == TopRanked(name, s.all_actions)
        expected == {j \in top : \A i \in top :
                        IF direction = "leftmost_first"
                        THEN s.all_actions[j].operator_index <= s.all_actions[i].operator_index
                        ELSE s.all_actions[j].operator_index >= s.all_actions[i].operator_index}
    IN /\ \A j \in 1..Len(s.all_actions) :
              IF s.all_actions[j].action_type = "evaluate"
              THEN PassesBoth(name, direction, s, s.all_actions[j]) <=> j \in expected
              ELSE PassesBoth(name, direction, s, s.all_actions[j])
       /\ top # {} => Cardinality(expected) = 1

\* C23: in every recorded state of every walk, for every learner profile with
\* highest_precedence_first and leftmost_first (rightmost_first), exactly one
\* evaluate action passes both policies when there is one at all: the one of
\* smallest (largest) operator index among the evaluate actions of top rank in
\* the profile's precedence map; distribute and drop_brackets actions pass both.
C23_OneEvaluatePasses ==
    \A k \in 1..Len(steps) :
        ~steps[k].is_final =>
            /\ \A name \in LearnersWith("leftmost_first") :
                   OnePasses(name, "leftmost_first", steps[k])
            /\ \A name \in LearnersWith("rightmost_first") :
                   OnePasses(name, "rightmost_first", steps[k])

\* a walk of bodmas_wrong_direction has recorded a state with two evaluate
\* actions of top rank and has chosen the one further right
C23_Witness ==
    /\ self_learner = "bodmas_wrong_direction"
    /\ "bodmas_wrong_direction" \in LearnersWith("rightmost_first")
    /\ "expert" \in LearnersWith("leftmost_first")
    /\ \E k \in 1..Len(steps) :
           /\ ~steps[k].is_final
           /\ Cardinality(TopRanked("bodmas_wrong_direction", steps[k].all_actions)) >= 2
           /\ steps[k].chosen_action.action_type = "evaluate"
           /\ \A j \in TopRanked("bodmas_wrong_direction", steps[k].all_actions) :
                  steps[k].all_actions[j].operator_index <= steps[k].chosen_action.operator_index

\* brackets_first lets the action through in the state of step s
BracketsFirstAllows(s, action) ==
    POLICY_REGISTRY("brackets_first", s.tokens, action, s.all_actions, PRECEDENCE_BODMAS)

\* the operator of the action stands inside some bracket of tokens
OperatorInside(tokens, action) == NestingAt(tokens, action.operator_index + 1) > 0

\* C24: in every recorded state of a walk that still holds a bracket group,
\* brackets_first lets no evaluate action through whose operator stands outside
\* all brackets, lets a distribute action through only if no evaluate action
\* inside a bracket is on offer, and lets no drop_brackets action through.
C24_BracketsFirst ==
    \A k \in 1..Len(steps) :
        (~steps[k].is_final /\ find_bracket_groups(steps[k].tokens) # <<>>) =>
            \A j \in 1..Len(steps[k].all_actions) :
                LET action == steps[k].all_actions[j]
                    allowed == BracketsFirstAllows(steps[k], action)
                IN /\ (action.action_type = "evaluate"
                       /\ ~OperatorInside(steps[k].tokens, action)) => ~allowed
                   /\ (action.action_type = "distribute" /\ allowed) =>
                          \A i \in 1..Len(steps[k].all_actions) :
                              steps[k].all_actions[i].action_type = "evaluate" =>
                                  ~OperatorInside(steps[k].tokens, steps[k].all_actions[i])
                   /\ action.action_type = "drop_brackets" => ~allowed

\* the number of steps of the path that carry a chosen action
ActionSteps(path) ==
    Cardinality({k \in 1..Len(path) : "chosen_action" \in DOMAIN path[k]})

\* C22: no path get_all_learner_paths(max_depth) returns holds more than
\* max_depth steps that carry a chosen action.
C22_DepthCeiling ==
    pc = "explored" => \A j \in 1..Len(paths) : ActionSteps(paths[j]) <= max_depth

\* the ids of the nodes of the graph whose expression is the text `state`
NodesOf(state) == {id \in DOMAIN nodes : nodes[id].expression = state}

\* the step from state `from` to state `to` by an action of kind `kind` is an
\* edge of the graph
IsEdge(from, kind, to) ==
    \E e \in 1..Len(edges) :
        /\ edges[e].from_node_id \in NodesOf(from)
        /\ edges[e].to_node_id \in NodesOf(to)
        /\ edges[e].action_type = kind

\* the steps of one walk or path stay on the graph
OnGraph(path) ==
    /\ \A k \in 1..Len(path) : NodesOf(path[k].state) # {}
    /\ \A k \in 1..(Len(path) - 1) :
           IsEdge(path[k].state, path[k].chosen_action.action_type, path[k + 1].state)

\* C25: the walker moves on the graph its constructor built: every state a
\* walk of walk_deterministic records, the state it stands in, and every state
\* of every path of get_all_learner_paths is the expression of a node of that
\* graph, and every step from one state to the next is an edge of the graph
\* between their nodes with the kind of the chosen action.
C25_WalksTheGraph ==
    /\ Walking =>
           /\ OnGraph(steps)
           /\ (pc = "walk" /\ steps # <<>>) =>
                  /\ NodesOf(Text(walk_tokens)) # {}
                  /\ IsEdge(steps[Len(steps)].state,
                            steps[Len(steps)].chosen_action.action_type, Text(walk_tokens))
    /\ pc = "explored" => \A j \in 1..Len(paths) : OnGraph(paths[j])

\* simplify_brackets leaves the tokens as they are, and they hold no bracket
\* pair around one operand
Canonical(tokens) ==
    /\ simplify_brackets(tokens) = tokens
    /\ \A i \in 0..(Len(tokens) - 1) : ~SingleOperandPair(tokens, i)

\* the states of a walk or path after its first are canonical
CanonicalAfterFirst(path) == \A k \in 2..Len(path) : Canonical(path[k].tokens)

\* C26: every node of the graph but the root, every state of a walk but its
\* first, and every state of a returned path but its first holds tokens that
\* simplify_brackets leaves unchanged, with no bracket pair around a single
\* operand, whichever rewrite produced them.
C26_Canonical ==
    /\ \A id \in DOMAIN nodes : id # root_id => Canonical(nodes[id].tokens)
    /\ Walking =>
           /\ CanonicalAfterFirst(steps)
           /\ (pc = "walk" /\ steps # <<>>) => Canonical(walk_tokens)
    /\ pc = "explored" => \A j \in 1..Len(paths) : CanonicalAfterFirst(paths[j])

\* on "(2+3)*5" the graph holds the node "5*5", reached by evaluating inside
\* the bracket, and a walk has made that step
C26_Witness ==
    /\ Text(expression) = <<"(", "2", "+", "3", ")", "*", "5">>
    /\ pc = "walk"
    /\ Len(steps) = 1
    /\ steps[1].chosen_action.action_type = "evaluate"
    /\ Text(walk_tokens) = <<"5", "*", "5">>
    /\ \E e \in 1..Len(edges) :
           /\ edges[e].from_node_id = root_id
           /\ edges[e].action_type = "evaluate"
           /\ nodes[edges[e].to_node_id].expression = <<"5", "*", "5">>

\* the state a walk that is over stopped in: the tokens of walk_deterministic,
\* or the state of the last step where _execute_action returned None
StoppedIn ==
    IF walk_tokens = NoneTokens THEN steps[Len(steps)].tokens ELSE walk_tokens

\* the state is terminal, holds no action, or leaves this learner stuck
RestsIn(name, tokens) ==
    \/ Len(tokens) = 1 /\ IsNum(tokens[1])
    \/ /\ Len(tokens) > 1
       /\ ~EvaluatableRaises(tokens)
       /\ LET all_actions == extract_actions_from_tokens(tokens)
          IN \/ all_actions = <<>>
             \/ valid_actions(Learner(name), tokens, all_actions) = <<>>

\* C27: every walk of walk_deterministic comes to rest: once the walk is over,
\* whichever way the function was left, the state it stopped in is a terminal
\* state, a state with no action, or a state where its learner is stuck.
C27_WalkComesToRest ==
    pc \in {"returned", "walk_raised"} => RestsIn(self_learner, StoppedIn)

\* what distributing the bracket the action names gives: the distributions,
\* simplified, of the distributable brackets from which
\* extract_actions_from_tokens makes this very action, description included
OwnDistributions(tokens, action) ==
    LET distributable == find_distributable_brackets(tokens)
    IN {LET dist == distributable[i]
            result == distribute_bracket(tokens, dist.bracket_start, dist.bracket_end,
                                         dist.op_side, dist.op_index, dist.operand)
        IN IF result = NoneTokens THEN NoneTokens ELSE simplify_brackets(result) :
        i \in {j \in 1..Len(distributable) :
                  ExtractDistribute(tokens, <<distributable[j]>>, 1) = <<action>>}}

\* C28: the actions the walker finds in one state are pairwise unequal Action
\* values, and _execute_action of a distribute action returns the distribution
\* of the bracket that action names.
C28_OwnRewrite ==
    pc \in {"asked", "executed"} =>
        LET all_actions == steps[1].all_actions
        IN /\ \A i, j \in 1..Len(all_actions) :
                  i # j => ~ActionEq(all_actions[i], all_actions[j])
           /\ (pc = "executed" /\ steps[1].chosen_action.action_type = "distribute") =>
                  returned \in OwnDistributions(argument, steps[1].chosen_action)

\* the chosen action of a step of a walk or path, NoneAction where the step
\* carries none
ChosenIn(record) ==
    IF "chosen_action" \in DOMAIN record THEN record.chosen_action ELSE NoneAction

\* the walk and the path go through the same states and choose the same actions
SameRoute(walk, path) ==
    /\ Len(walk) = Len(path)
    /\ \A k \in 1..Len(walk) :
           /\ walk[k].state = path[k].state
           /\ ChosenIn(walk[k]) = ChosenIn(path[k])

\* C29: when walk_deterministic has returned, get_all_learner_paths of the
\* same walker with max_depth at least the number of steps of the walk returns
\* paths, and the first of them goes through the states and chosen actions of
\* the walk.
C29_FirstBranch ==
    pc = "returned" =>
        \A extra \in Depths :
            LET all == explore(Learner(self_learner), Len(steps) + extra, expression, <<>>, 0)
            IN /\ ~all.raised
               /\ all.paths # <<>>
               /\ SameRoute(steps, all.paths[1])

\* a walk of two rewrites has returned with its final step; at the first
\* state its learner had several valid actions, the enumeration returns
\* several paths, and the first of them, not the second, is the route of the
\* walk
C29_Witness ==
    /\ pc = "returned"
    /\ Len(steps) = 3
    /\ steps[3].is_final
    /\ Len(steps[1].valid_actions) >= 2
    /\ LET all == explore(Learner(self_learner), Len(steps), expression, <<>>, 0)
       IN /\ ~all.raised
          /\ Len(all.paths) >= 2
          /\ SameRoute(steps, all.paths[1])
          /\ ~SameRoute(steps, all.paths[2])

\* every state of the walk or path holds well-formed tokens
WellFormedStates(path) == \A k \in 1..Len(path) : validate_tokens(path[k].tokens)

\* C30: rewrites preserve well-formedness: when the root tokens pass
\* validate_tokens (brackets balanced and non-empty, no operator first, last,
\* next to an operator or against the inside of a bracket), so do the tokens
\* of every node of the graph, of every state a walk records or stands in, and
\* of every state of every returned path.
C30_WellFormed ==
    /\ (DOMAIN nodes # {} /\ validate_tokens(expression)) =>
           \A id \in DOMAIN nodes : validate_tokens(nodes[id].tokens)
    /\ (Walking /\ validate_tokens(expression)) =>
           /\ WellFormedStates(steps)
           /\ walk_tokens # NoneTokens => validate_tokens(walk_tokens)
    /\ (pc = "explored" /\ validate_tokens(expression)) =>
           \A j \in 1..Len(paths) : WellFormedStates(paths[j])

\* the graph of "(2+3)*5" is built, with nodes reached by an evaluate, a
\* distribute and a drop_brackets edge, and a walk stands in the state its
\* first rewrite gave
C30_Witness ==
    /\ Text(expression) = <<"(", "2", "+", "3", ")", "*", "5">>
    /\ validate_tokens(expression)
    /\ \A kind \in {"evaluate", "distribute", "drop_brackets"} :
           \E e \in 1..Len(edges) :
               /\ edges[e].action_type = kind
               /\ validate_tokens(nodes[edges[e].to_node_id].tokens)
    /\ pc = "walk"
    /\ Len(steps) = 1
    /\ walk_tokens # expression
    /\ validate_tokens(walk_tokens)
====
